---- MODULE Spec2Model ----
(***************************************************************************)
(* Model of the OCR service (src/src/services/ocrService.js) and of the    *)
(* note upload controller's background processing (src/unnamed/part_005).  *)
(*                                                                         *)
(* The specifications of the module, each on its own variables:            *)
(*   Spec        one extractText call, step by step (validation, probe,    *)
(*               submission, the polling loop, the simulation fallback),   *)
(*               called either directly (and followed by                   *)
(*               generateSearchablePDF) or from processNoteFiles;          *)
(*   SpecBatch   processMultipleFiles: one concurrent task per file;       *)
(*   SpecSpacing calculateSpacingBetweenWords applied to pairs of boxes;   *)
(*   and, each introduced in its section, the specifications of the        *)
(*   normalizer, the text probe, the assembler, the overlay, the line      *)
(*   breaks, the paragraph formatter and the upload quota.                 *)
(*                                                                         *)
(* The recognition service and the file system are the environment: the    *)
(* service answers every submission and every poll with any status or      *)
(* error; files are on disk or not, and leave it only when the program     *)
(* unlinks them.                                                           *)
(***************************************************************************)
EXTENDS Integers, Sequences, FiniteSets, TLC

VARIABLES
  \* ---- one extractText call and its caller (Spec)
  flow,             \* "direct": a caller awaits extractText; "note": processNoteFiles
  filePath,         \* "undefined" | "empty" | "path"
  mimetype,         \* "" | "image/png" | "application/pdf" | "text/plain"
  fileExists,       \* the uploaded file is on disk
  fileSize,         \* its size in bytes
  fileIndicators,   \* number of text-indicator matches in its bytes
  fileBytes,        \* its content
  clientConfigured, \* VISION_KEY and VISION_ENDPOINT were set at start-up
  pc,               \* position of the call
  via,              \* "none" | "stream" (readTextFromFile) | "buffer" (...Alternative)
  attempts,         \* the loop's local counter
  sleeps,           \* sleep(1000) calls of the polling loop since the last submission
  submitCalls,      \* client.readInStream calls of this extractText call
  pollCalls,        \* client.getReadResult calls of this extractText call
  lastStatus,       \* status of the last poll that returned
  onlyRunning,      \* every non-terminal status since the last submission was "running"
  rtfState,         \* orchestrator state: Submitted, Polling, Succeeded, Failed, TimedOut, ...
  submitThrew,      \* some client.readInStream call threw
  probe,            \* "none" | "hasText" | "noText": checkPDFTextWithPdfParse's answer
  result,           \* what extractText settled with
  overlayPath,      \* extractTextWithOverlay set result.overlayPDFPath
  artifact,         \* content written by generateSearchablePDF ("none" before)
  noteExists,       \* the note is in the database
  noteStatus,       \* note.status ("none" without a note)
  statusWrites,     \* number of updates that set note.status
  ocrTextPDF,       \* note.ocrTextPDF.data ("none" when not stored)
  unlinkAttempts,   \* fs.unlink(filePath) calls of processNoteFiles
  \* ---- processMultipleFiles (SpecBatch)
  files,            \* the input array
  taskPc,           \* position of each file's task
  taskOutcome,      \* how each file's extractText settled
  entries,          \* value each task's promise fulfilled with
  settledCount,     \* number of tasks settled so far
  batch,            \* what processMultipleFiles settled with
  \* ---- calculateSpacingBetweenWords (SpecSpacing)
  word1, word2,     \* the two words
  spacing,          \* the returned string ("?" before the call)
  \* ---- cleanAndFormatText (SpecNormalizer)
  rawText,          \* the input string, a sequence of characters
  cleanedOnce,      \* cleanAndFormatText(rawText)
  cleanedTwice,     \* cleanAndFormatText(cleanAndFormatText(rawText))
  normPc,           \* "idle" | "raw" | "once" | "twice"
  \* ---- checkPDFTextWithPdfParse (SpecProbe)
  probedReadable,   \* fsPromises.readFile(filePath) succeeds
  probedMatches,    \* matches of each text indicator in the file's bytes
  probed,           \* the object checkPDFTextWithPdfParse returned
  \* ---- the assembler: the page loop of processOCRResults (SpecAssemble)
  lines,            \* page.lines
  lineTexts,        \* processWordsWithSpacing(line.words) of each line
  firstPassText,    \* what processLinesWithIntelligentSpacing returned
  pageText,         \* the variable pageText
  passes,           \* the passes applied so far, in order
  asmPc,            \* position in the page loop
  \* ---- extractTextWithOverlay after a recognition (SpecOverlay)
  ovInput,          \* the file, the recognized page and the environment
  ovPc,             \* position of the call
  ovDrawn,          \* the drawText calls made on the loaded PDF: text, x, y
  ovArtifact,       \* what was written to the overlay path
  ovThrew,          \* the functions that threw
  ovResult,         \* what extractTextWithOverlay settled with
  \* ---- calculateSpacingBetweenLines (SpecLineBreak)
  lbLine1, lbLine2, \* the two lines
  lbResult,         \* the returned string ("?" before the call)
  \* ---- detectAndFormatParagraphs (SpecParagraphs)
  paraLines,        \* the lines of the input text
  formattedText,    \* the returned text, a sequence of lines and separators
  paraPc,           \* "idle" | "text" | "formatted"
  \* ---- concurrent uploadAndCreateNote requests of one user (SpecUpload)
  notesUploaded,    \* user.usage.notesUploaded in the database
  notesLimit,       \* user.usage.notesLimit in the database
  reqPc,            \* position of each request
  reqUser           \* the user document each request read

ocrVars == <<flow, filePath, mimetype, fileExists, fileSize, fileIndicators, fileBytes,
             clientConfigured, pc, via, attempts, sleeps, submitCalls, pollCalls,
             lastStatus, onlyRunning, rtfState, submitThrew, probe, result,
             overlayPath, artifact, noteExists, noteStatus, statusWrites,
             ocrTextPDF, unlinkAttempts>>
batchVars == <<files, taskPc, taskOutcome, entries, settledCount, batch>>
spacingVars == <<word1, word2, spacing>>
normVars == <<rawText, cleanedOnce, cleanedTwice, normPc>>
probeVars == <<probedReadable, probedMatches, probed>>
asmVars == <<lines, lineTexts, firstPassText, pageText, passes, asmPc>>
overlayVars == <<ovInput, ovPc, ovDrawn, ovArtifact, ovThrew, ovResult>>
lineBreakVars == <<lbLine1, lbLine2, lbResult>>
paraVars == <<paraLines, formattedText, paraPc>>
uploadVars == <<notesUploaded, notesLimit, reqPc, reqUser>>
lastVars == <<lineBreakVars, paraVars, uploadVars>>
laterVars == <<normVars, probeVars, asmVars, overlayVars, lastVars>>
otherThanNorm == <<ocrVars, batchVars, spacingVars, probeVars, asmVars, overlayVars,
                   lastVars>>
otherThanProbe == <<ocrVars, batchVars, spacingVars, normVars, asmVars, overlayVars,
                    lastVars>>
otherThanAsm == <<ocrVars, batchVars, spacingVars, normVars, probeVars, overlayVars,
                  lastVars>>
otherThanOverlay == <<ocrVars, batchVars, spacingVars, normVars, probeVars, asmVars,
                      lastVars>>
earlierVars == <<ocrVars, batchVars, spacingVars, normVars, probeVars, asmVars,
                 overlayVars>>
otherThanLineBreak == <<earlierVars, paraVars, uploadVars>>
otherThanPara == <<earlierVars, lineBreakVars, uploadVars>>
otherThanUpload == <<earlierVars, lineBreakVars, paraVars>>
otherThanOcr == <<batchVars, spacingVars, laterVars>>
otherThanBatch == <<ocrVars, spacingVars, laterVars>>
otherThanSpacing == <<ocrVars, batchVars, laterVars>>
vars == <<ocrVars, batchVars, spacingVars, laterVars>>

----------------------------------------------------------------------------
(* CONFIG *)

\* CONFIG.TIMEOUT_SECONDS, used as maxAttempts by both polling loops
TIMEOUT_SECONDS == 30

\* CONFIG.MAX_FILE_SIZE_BYTES = 20 * 1024 * 1024
MAX_FILE_SIZE_BYTES == 20971520

\* checkPDFTextWithPdfParse: hasText = textIndicatorCount > 5
TextIndicatorThreshold == 5

\* simulateOCR's fixed confidence
SimulationConfidence == 50

\* the skip branch's fixed confidence
ExistingTextConfidence == 95

----------------------------------------------------------------------------
(* Inputs of Spec *)

FilePaths == {"undefined", "empty", "path"}
Mimetypes == {"", "image/png", "application/pdf", "text/plain"}
FileSizes == {MAX_FILE_SIZE_BYTES, MAX_FILE_SIZE_BYTES + 1}
\* file contents: bytes and the number of text indicators found in them
Contents == { [bytes |-> "pdfA", indicators |-> 0],
              [bytes |-> "pdfB", indicators |-> TextIndicatorThreshold],
              [bytes |-> "pdfC", indicators |-> TextIndicatorThreshold + 1],
              [bytes |-> "pdfD", indicators |-> TextIndicatorThreshold + 2] }
\* confidences processOCRResults can compute (Math.round of an average, in percent)
AzureConfidences == {50, 100}

PendingStatuses == {"notStarted", "running"}
Statuses == PendingStatuses \cup {"failed", "succeeded"}
\* what the service does to a getReadResult call: a status, or an error
PollAnswers == Statuses \cup {"throw", "throwImageMustBe"}
\* what the service does to a readInStream call
SubmitAnswers == {"ok", "throw", "throwImageMustBe"}

\* no call of checkPDFTextWithPdfParse has returned
NotProbed == [method |-> "none", hasText |-> FALSE, textLength |-> 0, pageCount |-> 0]

NoResult == [kind |-> "none", ocrEngine |-> "", confidence |-> 0,
             skippedOCR |-> FALSE, originallySearchable |-> FALSE]
Rejected == [NoResult EXCEPT !.kind = "rejected"]

\* the object simulateOCR returns
SimulationResult == [kind |-> "resolved", ocrEngine |-> "Simulation",
                     confidence |-> SimulationConfidence,
                     skippedOCR |-> FALSE, originallySearchable |-> FALSE]

\* the object extractText returns when the probe found text
ExistingTextResult == [kind |-> "resolved", ocrEngine |-> "Existing PDF Text",
                       confidence |-> ExistingTextConfidence,
                       skippedOCR |-> TRUE, originallySearchable |-> TRUE]

\* the object extractText returns after a successful recognition
AzureResult(c) == [kind |-> "resolved", ocrEngine |-> "Azure Computer Vision",
                   confidence |-> c,
                   skippedOCR |-> FALSE, originallySearchable |-> FALSE]

----------------------------------------------------------------------------
(* extractText and the functions it calls *)

inputVars == <<flow, filePath, mimetype, fileSize, fileIndicators, fileBytes,
               clientConfigured>>
loopVars == <<via, attempts, sleeps, submitCalls, pollCalls, lastStatus,
              onlyRunning, rtfState, submitThrew>>
noteVars == <<overlayPath, artifact, noteExists, noteStatus, statusWrites,
              ocrTextPDF, unlinkAttempts>>

\* mutant of HasClient: the client is constructed whatever the environment holds
HasClientAlways == TRUE

\* computerVisionClient is non-null exactly when both credentials were set
HasClient == clientConfigured

\* mutant of HasText: the threshold itself counts as text
HasTextFromThreshold(count) == count >= TextIndicatorThreshold

\* checkPDFTextWithPdfParse's decision on the number of indicator matches
HasText(count) == count > TextIndicatorThreshold

\* mimetype.startsWith("image/") || mimetype === "application/pdf"
IsSupported(m) == m = "image/png" \/ m = "application/pdf"

\* mutant of CatchSimulates: the catch block rethrows
CatchRethrows == FALSE

\* extractText's catch block: hand the call to simulateOCR
CatchSimulates == TRUE

\* where control goes when extractText settles
ReturnPc == IF flow = "direct" THEN "done" ELSE "ov_overlay"

\* mutant of AfterSubmit: a loop that polls first and sleeps between polls
AfterSubmitPollsFirst == "rtf_poll"

\* the do-while loop starts with sleep(1000), then polls
AfterSubmit == "rtf_sleep"

\* the loop body after getReadResult returned `status`, with attempts already
\* incremented to `att`: the timeout check comes first, then the loop condition,
\* then the failed check
LoopExit(att, status) ==
  IF att >= TIMEOUT_SECONDS THEN "TimedOut"
  ELSE IF status \in PendingStatuses THEN "Polling"
  ELSE IF status = "failed" THEN "Failed"
  ELSE "Succeeded"

\* if (!filePath || !mimetype) throw
ETValidate ==
  /\ pc = "et_validate"
  /\ pc' = IF filePath # "path" \/ mimetype = "" THEN "et_catch" ELSE "et_stat"
  /\ UNCHANGED <<inputVars, loopVars, noteVars, fileExists, probe, result>>

\* await fsPromises.stat(fullPath); the size check; the PDF branch
ETStat ==
  /\ pc = "et_stat"
  /\ pc' = IF ~fileExists THEN "et_catch"
           ELSE IF fileSize > MAX_FILE_SIZE_BYTES THEN "et_catch"
           ELSE IF mimetype = "application/pdf" THEN "et_probe"
           ELSE "et_client"
  /\ UNCHANGED <<inputVars, loopVars, noteVars, fileExists, probe, result>>

\* await this.checkPDFTextWithPdfParse(fullPath), and the early return
ETProbe ==
  /\ pc = "et_probe"
  /\ LET hasText == fileExists /\ HasText(fileIndicators) IN
       /\ probe' = IF hasText THEN "hasText" ELSE "noText"
       /\ result' = IF hasText THEN ExistingTextResult ELSE result
       /\ pc' = IF hasText THEN ReturnPc ELSE "et_client"
  /\ UNCHANGED <<inputVars, loopVars, noteVars, fileExists>>

\* if (!computerVisionClient) return await simulateOCR(...); the mimetype check
ETClient ==
  /\ pc = "et_client"
  /\ IF ~HasClient
       THEN pc' = "sim_sleep" /\ via' = via
       ELSE IF IsSupported(mimetype)
         THEN pc' = "rtf_submit" /\ via' = "stream"
         ELSE pc' = "et_catch" /\ via' = via
  /\ UNCHANGED <<inputVars, noteVars, fileExists, probe, result, attempts, sleeps,
                 submitCalls, pollCalls, lastStatus, onlyRunning, rtfState,
                 submitThrew>>

\* client.readInStream in readTextFromFile (via = "stream") and in
\* readTextFromFileAlternative (via = "buffer"); readTextFromFile's catch retries
\* through the alternative when the message includes "image must be"
RTFSubmit(ans) ==
  /\ pc = "rtf_submit"
  /\ submitCalls' = submitCalls + 1
  /\ IF ans = "ok"
       THEN /\ rtfState' = "Submitted"
            /\ attempts' = 0
            /\ sleeps' = 0
            /\ onlyRunning' = TRUE
            /\ lastStatus' = "none"
            /\ pc' = AfterSubmit
            /\ UNCHANGED <<via, submitThrew>>
       ELSE /\ rtfState' = "SubmitError"
            /\ submitThrew' = TRUE
            /\ IF ans = "throwImageMustBe" /\ via = "stream"
                 THEN via' = "buffer" /\ pc' = "rtf_submit"
                 ELSE via' = via /\ pc' = "et_catch"
            /\ UNCHANGED <<attempts, sleeps, onlyRunning, lastStatus>>
  /\ UNCHANGED <<inputVars, noteVars, fileExists, probe, result, pollCalls>>

\* await sleep(1000)
RTFSleep ==
  /\ pc = "rtf_sleep"
  /\ sleeps' = sleeps + 1
  /\ rtfState' = "Polling"
  /\ pc' = "rtf_poll"
  /\ UNCHANGED <<inputVars, noteVars, fileExists, probe, result, via, attempts,
                 submitCalls, pollCalls, lastStatus, onlyRunning, submitThrew>>

\* readResult = await client.getReadResult(operationId); attempts++; the checks
RTFPoll(ans) ==
  /\ pc = "rtf_poll"
  /\ pollCalls' = pollCalls + 1
  /\ IF ans \in Statuses
       THEN LET next == LoopExit(attempts + 1, ans) IN
            /\ attempts' = attempts + 1
            /\ lastStatus' = ans
            /\ onlyRunning' = IF ans \in PendingStatuses
                                THEN onlyRunning /\ ans = "running"
                                ELSE onlyRunning
            /\ rtfState' = next
            /\ pc' = IF next = "Polling" THEN "rtf_sleep"
                     ELSE IF next = "Succeeded" THEN "et_process"
                     ELSE "et_catch"
            /\ via' = via
       ELSE /\ rtfState' = "PollError"
            /\ IF ans = "throwImageMustBe" /\ via = "stream"
                 THEN via' = "buffer" /\ pc' = "rtf_submit"
                 ELSE via' = via /\ pc' = "et_catch"
            /\ UNCHANGED <<attempts, lastStatus, onlyRunning>>
  /\ UNCHANGED <<inputVars, noteVars, fileExists, probe, result, sleeps,
                 submitCalls, submitThrew>>

\* processOCRResults(result) and the returned object
ETProcess ==
  /\ pc = "et_process"
  /\ \E c \in AzureConfidences : result' = AzureResult(c)
  /\ pc' = ReturnPc
  /\ UNCHANGED <<inputVars, loopVars, noteVars, fileExists, probe>>

\* catch (error) { return await simulateOCR(filePath, mimetype); }
ETCatch ==
  /\ pc = "et_catch"
  /\ IF CatchSimulates
       THEN pc' = "sim_sleep" /\ result' = result
       ELSE pc' = ReturnPc /\ result' = Rejected
  /\ UNCHANGED <<inputVars, loopVars, noteVars, fileExists, probe>>

\* simulateOCR: await sleep(1000); path.basename(filePath) throws a TypeError
\* when filePath is not a string; stat's failure is caught; the fixed object is
\* returned
SimulateOCR ==
  /\ pc = "sim_sleep"
  /\ result' = IF filePath = "undefined" THEN Rejected ELSE SimulationResult
  /\ pc' = ReturnPc
  /\ UNCHANGED <<inputVars, loopVars, noteVars, fileExists, probe>>

----------------------------------------------------------------------------
(* The callers of extractText *)

\* mutant of GeneratedArtifacts: the skip branch is missing, every PDF goes
\* through the legacy method
GeneratedArtifactsNoCopy(res, exists, bytes, mime) ==
  IF mime = "application/pdf" THEN {"legacyText"}
  ELSE IF res.ocrEngine = "Azure Computer Vision"
    THEN {"imageOverlay", "legacyText"}
    ELSE {"legacyText"}

\* generateSearchablePDF(originalFilePath, ocrResults, outputPath), called with the
\* object extractText resolved with: what ends up at the output path.
\*   skippedOCR && originallySearchable: fsPromises.copyFile of the original
\*     (a failed copy is caught and the legacy text-only PDF written instead);
\*   a PDF: generateSearchablePDFLegacy;
\*   an image: createContinuousSearchablePdf on readResults[0], or, when that
\*     throws (a result without readResults, a drawing failure), the legacy PDF
GeneratedArtifacts(res, exists, bytes, mime) ==
  IF res.skippedOCR /\ res.originallySearchable
    THEN IF exists THEN {bytes} ELSE {"legacyText"}
    ELSE IF mime = "application/pdf" THEN {"legacyText"}
    ELSE IF res.ocrEngine = "Azure Computer Vision"
      THEN {"imageOverlay", "legacyText"}
      ELSE {"legacyText"}

\* the caller of the direct flow generates the searchable PDF of the same file
GenerateSearchablePDF ==
  /\ pc = "done"
  /\ result.kind = "resolved"
  /\ \E a \in GeneratedArtifacts(result, fileExists, fileBytes, mimetype) :
       artifact' = a
  /\ pc' = "generated"
  /\ UNCHANGED <<inputVars, loopVars, fileExists, probe, result, overlayPath,
                 noteExists, noteStatus, statusWrites, ocrTextPDF, unlinkAttempts>>

\* processNoteFiles: const note = await Note.findById(noteId); a missing note
\* throws; else extractTextWithOverlay(filePath, note.originalFile.mimetype, true)
PNFFind ==
  /\ pc = "pnf_find"
  /\ pc' = IF noteExists THEN "et_validate" ELSE "pnf_catch"
  /\ UNCHANGED <<inputVars, loopVars, noteVars, fileExists, probe, result>>

\* extractTextWithOverlay after extractText settled: a rejection is rethrown; for
\* an Azure result the overlay PDF is generated, and overlayPDFPath is set unless
\* every overlay method failed
OVOverlay ==
  /\ pc = "ov_overlay"
  /\ IF result.kind = "rejected"
       THEN pc' = "pnf_catch" /\ overlayPath' = overlayPath
       ELSE /\ pc' = "pnf_update"
            /\ IF result.ocrEngine = "Azure Computer Vision"
                 THEN \E ok \in BOOLEAN : overlayPath' = ok
                 ELSE overlayPath' = overlayPath
  /\ UNCHANGED <<inputVars, loopVars, fileExists, probe, result, artifact,
                 noteExists, noteStatus, statusWrites, ocrTextPDF, unlinkAttempts>>

\* the data processNoteFiles stores as ocrTextPDF: the original file's bytes when
\* recognition was skipped (nothing when the file cannot be read), else the
\* overlay PDF's bytes when one was generated
OcrPDFData(res, exists, bytes, overlay) ==
  IF res.skippedOCR /\ res.originallySearchable
    THEN IF exists THEN bytes ELSE "none"
    ELSE IF overlay THEN "overlayPDF" ELSE "none"

\* processNoteFiles: building ocrPDFData and await Note.findByIdAndUpdate(noteId,
\* updateData) with status "completed"
PNFUpdate ==
  /\ pc = "pnf_update"
  /\ ocrTextPDF' = OcrPDFData(result, fileExists, fileBytes, overlayPath)
  /\ noteStatus' = "completed"
  /\ statusWrites' = statusWrites + 1
  /\ pc' = "pnf_unlink"
  /\ UNCHANGED <<inputVars, loopVars, fileExists, probe, result, overlayPath,
                 artifact, noteExists, unlinkAttempts>>

\* mutant of PNFCatch: a catch block that marks the note and leaves the file
PNFCatchWithoutCleanup ==
  /\ pc = "pnf_catch"
  /\ noteStatus' = IF noteExists THEN "failed" ELSE noteStatus
  /\ statusWrites' = IF noteExists THEN statusWrites + 1 ELSE statusWrites
  /\ pc' = "pnf_done"
  /\ UNCHANGED <<inputVars, loopVars, fileExists, probe, result, overlayPath,
                 artifact, noteExists, ocrTextPDF, unlinkAttempts>>

\* processNoteFiles' catch block: await Note.findByIdAndUpdate(noteId, {status:
\* "failed"}), which updates nothing when the note is gone
PNFCatch ==
  /\ pc = "pnf_catch"
  /\ noteStatus' = IF noteExists THEN "failed" ELSE noteStatus
  /\ statusWrites' = IF noteExists THEN statusWrites + 1 ELSE statusWrites
  /\ pc' = "pnf_unlink"
  /\ UNCHANGED <<inputVars, loopVars, fileExists, probe, result, overlayPath,
                 artifact, noteExists, ocrTextPDF, unlinkAttempts>>

\* await fs.unlink(filePath), in the try block and in the catch block
PNFUnlink ==
  /\ pc = "pnf_unlink"
  /\ unlinkAttempts' = unlinkAttempts + 1
  /\ fileExists' = FALSE
  /\ pc' = "pnf_done"
  /\ UNCHANGED <<inputVars, loopVars, probe, result, overlayPath, artifact,
                 noteExists, noteStatus, statusWrites, ocrTextPDF>>

----------------------------------------------------------------------------
(* Values of the variables a specification does not use *)

BatchIdle ==
  /\ files = <<>>
  /\ taskPc = <<>>
  /\ taskOutcome = <<>>
  /\ entries = <<>>
  /\ settledCount = 0
  /\ batch = "idle"

SpacingIdle ==
  /\ word1 = <<>>
  /\ word2 = <<>>
  /\ spacing = "?"

OcrIdle ==
  /\ flow = "idle"
  /\ filePath = "undefined"
  /\ mimetype = ""
  /\ fileExists = FALSE
  /\ fileSize = 0
  /\ fileIndicators = 0
  /\ fileBytes = "none"
  /\ clientConfigured = FALSE
  /\ pc = "idle"
  /\ via = "none"
  /\ attempts = 0
  /\ sleeps = 0
  /\ submitCalls = 0
  /\ pollCalls = 0
  /\ lastStatus = "none"
  /\ onlyRunning = TRUE
  /\ rtfState = "none"
  /\ submitThrew = FALSE
  /\ probe = "none"
  /\ result = NoResult
  /\ overlayPath = FALSE
  /\ artifact = "none"
  /\ noteExists = FALSE
  /\ noteStatus = "none"
  /\ statusWrites = 0
  /\ ocrTextPDF = "none"
  /\ unlinkAttempts = 0

NormIdle ==
  /\ rawText = <<>>
  /\ cleanedOnce = <<>>
  /\ cleanedTwice = <<>>
  /\ normPc = "idle"

ProbeIdle ==
  /\ probedReadable = FALSE
  /\ probedMatches = <<>>
  /\ probed = NotProbed

EarlierIdle == OcrIdle /\ BatchIdle /\ SpacingIdle

AsmIdle ==
  /\ lines = <<>>
  /\ lineTexts = <<>>
  /\ firstPassText = <<>>
  /\ pageText = <<>>
  /\ passes = <<>>
  /\ asmPc = "idle"

OverlayIdle ==
  /\ ovInput = <<>>
  /\ ovPc = "idle"
  /\ ovDrawn = <<>>
  /\ ovArtifact = "none"
  /\ ovThrew = {}
  /\ ovResult = "none"

LineBreakIdle ==
  /\ lbLine1 = <<>>
  /\ lbLine2 = <<>>
  /\ lbResult = "?"

ParaIdle ==
  /\ paraLines = <<>>
  /\ formattedText = <<>>
  /\ paraPc = "idle"

UploadIdle ==
  /\ notesUploaded = 0
  /\ notesLimit = 0
  /\ reqPc = <<>>
  /\ reqUser = <<>>

LastIdle == LineBreakIdle /\ ParaIdle /\ UploadIdle

LaterIdle == NormIdle /\ ProbeIdle /\ AsmIdle /\ OverlayIdle /\ LastIdle

----------------------------------------------------------------------------
(* Spec: one extractText call *)

\* a direct call takes any arguments; processNoteFiles runs on a note that
\* uploadAndCreateNote created with status "processing" from a file it had read
\* (the note may have been deleted since)
Init ==
  /\ flow \in {"direct", "note"}
  /\ filePath \in FilePaths
  /\ mimetype \in Mimetypes
  /\ fileExists \in BOOLEAN
  /\ flow = "note" => (filePath = "path" /\ fileExists)
  /\ fileSize \in FileSizes
  /\ \E c \in Contents : fileBytes = c.bytes /\ fileIndicators = c.indicators
  /\ clientConfigured \in BOOLEAN
  /\ pc = IF flow = "direct" THEN "et_validate" ELSE "pnf_find"
  /\ via = "none"
  /\ attempts = 0
  /\ sleeps = 0
  /\ submitCalls = 0
  /\ pollCalls = 0
  /\ lastStatus = "none"
  /\ onlyRunning = TRUE
  /\ rtfState = "none"
  /\ submitThrew = FALSE
  /\ probe = "none"
  /\ result = NoResult
  /\ overlayPath = FALSE
  /\ artifact = "none"
  /\ noteExists \in BOOLEAN
  /\ flow = "direct" => ~noteExists
  /\ noteStatus = IF noteExists THEN "processing" ELSE "none"
  /\ statusWrites = 0
  /\ ocrTextPDF = "none"
  /\ unlinkAttempts = 0
  /\ BatchIdle
  /\ SpacingIdle
  /\ LaterIdle

Next ==
  \/ (ETValidate /\ UNCHANGED otherThanOcr)
  \/ (ETStat /\ UNCHANGED otherThanOcr)
  \/ (ETProbe /\ UNCHANGED otherThanOcr)
  \/ (ETClient /\ UNCHANGED otherThanOcr)
  \/ (\E ans \in SubmitAnswers : RTFSubmit(ans) /\ UNCHANGED otherThanOcr)
  \/ (RTFSleep /\ UNCHANGED otherThanOcr)
  \/ (\E ans \in PollAnswers : RTFPoll(ans) /\ UNCHANGED otherThanOcr)
  \/ (ETProcess /\ UNCHANGED otherThanOcr)
  \/ (ETCatch /\ UNCHANGED otherThanOcr)
  \/ (SimulateOCR /\ UNCHANGED otherThanOcr)
  \/ (GenerateSearchablePDF /\ UNCHANGED otherThanOcr)
  \/ (PNFFind /\ UNCHANGED otherThanOcr)
  \/ (OVOverlay /\ UNCHANGED otherThanOcr)
  \/ (PNFUpdate /\ UNCHANGED otherThanOcr)
  \/ (PNFCatch /\ UNCHANGED otherThanOcr)
  \/ (PNFUnlink /\ UNCHANGED otherThanOcr)

Spec == Init /\ [][Next]_vars

----------------------------------------------------------------------------
(* Claims about extractText, checked under Spec *)

\* extractText has just settled (its caller has not acted yet)
Settled == pc \in {"done", "ov_overlay"}

ResolvedWithSimulation == result.kind = "resolved" /\ result.ocrEngine = "Simulation"

\* C1 as stated: whenever a client is configured and a submission threw, a poll
\* reported failed or the attempts ran out, extractText resolves with the
\* simulation result.
ClaimC1_AsStated ==
  (Settled /\ clientConfigured
     /\ (submitThrew \/ lastStatus = "failed" \/ rtfState = "TimedOut"))
  => ResolvedWithSimulation

\* C1 amended: whenever a client is configured and the LAST submission threw (the
\* stream submission, or the one buffer retry that follows an error containing
\* "image must be"), or a poll reported failed, or the attempts ran out,
\* extractText resolves with the simulation result and does not reject.
TheoremC1 ==
  (Settled /\ clientConfigured
     /\ (rtfState = "SubmitError" \/ lastStatus = "failed" \/ rtfState = "TimedOut"))
  => ResolvedWithSimulation

\* a failed recognition that ended in the simulation result
WitnessC1 ==
  /\ pc = "done"
  /\ clientConfigured
  /\ rtfState = "Failed"
  /\ lastStatus = "failed"
  /\ result = SimulationResult

\* C2: the orchestrator ends Failed exactly when its first terminal status is
\* failed, ends TimedOut only when every poll returned notStarted or running, and
\* ends Succeeded otherwise, so a succeeded status at any poll 1..30 gives
\* Succeeded.
ClaimC2 ==
  rtfState \in {"Succeeded", "Failed", "TimedOut"} =>
    /\ (rtfState = "Failed") = (lastStatus = "failed")
    /\ rtfState = "TimedOut" => lastStatus \in PendingStatuses
    /\ lastStatus = "succeeded" => rtfState = "Succeeded"

\* the service answered running to three polls and then succeeded
ThreeRunningThenSucceeded ==
  rtfState = "Succeeded" /\ attempts = 4 /\ onlyRunning

\* C3 as stated: after three running answers and a succeeded one, exactly 3
\* sleeps were performed between submission and the result.
ClaimC3_AsStated == ThreeRunningThenSucceeded => sleeps = 3

\* C3 amended: after three running answers and a succeeded one the orchestrator is
\* in Succeeded and has slept exactly 4 times since the submission, once before
\* each of its 4 polls.
TheoremC3 == ThreeRunningThenSucceeded => sleeps = 4

WitnessC3 == ThreeRunningThenSucceeded /\ sleeps = 4 /\ pollCalls = 4

\* C4: one extractText call polls the service at most TIMEOUT_SECONDS times.
ClaimC4 == pollCalls <= TIMEOUT_SECONDS

InputTooLarge == filePath = "path" /\ fileExists /\ fileSize > MAX_FILE_SIZE_BYTES
UnsupportedMimeType == mimetype = "text/plain"

\* C5: in a call with both arguments, a file that is too large or of an
\* unsupported type makes extractText report an error to its caller, not a
\* simulated result, and nothing else does.
ClaimC5 ==
  (Settled /\ filePath = "path" /\ mimetype # "") =>
    /\ (InputTooLarge \/ UnsupportedMimeType) = (result.kind = "rejected")
    /\ (InputTooLarge \/ UnsupportedMimeType) => ~ResolvedWithSimulation

\* the input of C6: a path to an image, or to a PDF the probe found no text in
ImageOrPdfWithoutText ==
  /\ filePath = "path"
  /\ \/ mimetype = "image/png"
     \/ mimetype = "application/pdf" /\ probe = "noText"

\* C6: without credentials the service is never called, and for an image or a PDF
\* without text extractText resolves with the simulation result, confidence 50.
TheoremC6 ==
  ~clientConfigured =>
    /\ submitCalls = 0
    /\ pollCalls = 0
    /\ (Settled /\ ImageOrPdfWithoutText) =>
         /\ ResolvedWithSimulation
         /\ result.confidence = 50

WitnessC6 ==
  /\ pc = "done"
  /\ ~clientConfigured
  /\ mimetype = "application/pdf"
  /\ probe = "noText"
  /\ result = SimulationResult
  /\ submitCalls = 0

\* C7: when the probe reports text, the service is never called, extractText
\* resolves with the skipped-existing-text result, and both generateSearchablePDF's
\* output and the data processNoteFiles stores are the original file's bytes.
TheoremC7 ==
  probe = "hasText" =>
    /\ submitCalls = 0
    /\ pollCalls = 0
    /\ result.kind = "resolved"
    /\ result.ocrEngine = "Existing PDF Text"
    /\ result.skippedOCR
    /\ result.originallySearchable
    /\ pc = "generated" => artifact = fileBytes
    /\ pc \in {"pnf_unlink", "pnf_done"} => ocrTextPDF = fileBytes

WitnessC7 ==
  /\ probe = "hasText"
  /\ pc = "generated"
  /\ artifact = fileBytes
  /\ result.skippedOCR

----------------------------------------------------------------------------
(* SpecBatch: processMultipleFiles *)

\* largest number of files in one batch
MaxFiles == 3

FileNames == {"a.png", "b.pdf"}
\* a file object: { path, mimetype, filename }; the path may be missing
BatchFiles == [filename : FileNames, path : {"undefined", "path"}]

\* how extractText(file.path, file.mimetype) can settle: it rejects exactly when
\* simulateOCR is reached with a path that is not a string, and resolves with one
\* of the three engines otherwise
ExtractTextOutcomes(path) ==
  IF path = "undefined" THEN {"rejected"}
  ELSE {"Simulation", "Existing PDF Text", "Azure Computer Vision"}

NoEntry == [file |-> "", success |-> FALSE, detail |-> "none"]
\* the promise of a callback that threw
RejectedEntry == [file |-> "", success |-> FALSE, detail |-> "promise rejected"]

\* mutant of CallbackCatches: the callback has no try/catch
CallbackLetsThrow == FALSE

\* the callback wraps the await in try/catch
CallbackCatches == TRUE

\* mutant of ResultSlot: results are pushed in completion order
ResultSlotPush(i, done) == done + 1

\* Promise.all fulfils with the values in the order of the promises given to it
ResultSlot(i, done) == i

Tasks == 1..Len(files)

\* files.map(async (file) => ...): every callback runs up to its await
BatchStart ==
  /\ batch = "called"
  /\ \A i \in Tasks : taskPc[i] = "new"
  /\ Len(files) > 0
  /\ taskPc' = [i \in Tasks |-> "awaiting"]
  /\ UNCHANGED <<files, taskOutcome, entries, settledCount, batch>>

\* one file's extractText settles
TaskSettle(i) ==
  /\ batch = "called"
  /\ taskPc[i] = "awaiting"
  /\ \E o \in ExtractTextOutcomes(files[i].path) :
       taskOutcome' = [taskOutcome EXCEPT ![i] = o]
  /\ taskPc' = [taskPc EXCEPT ![i] = "settled"]
  /\ UNCHANGED <<files, entries, settledCount, batch>>

\* the callback resumes: return { file, success: true, ...result }, or from the
\* catch block { file, success: false, error }
TaskReturn(i) ==
  /\ batch = "called"
  /\ taskPc[i] = "settled"
  /\ LET entry ==
           IF taskOutcome[i] # "rejected"
             THEN [file |-> files[i].filename, success |-> TRUE,
                   detail |-> taskOutcome[i]]
           ELSE IF CallbackCatches
             THEN [file |-> files[i].filename, success |-> FALSE,
                   detail |-> "error"]
           ELSE RejectedEntry
     IN entries' = [entries EXCEPT ![ResultSlot(i, settledCount)] = entry]
  /\ settledCount' = settledCount + 1
  /\ taskPc' = [taskPc EXCEPT ![i] = "done"]
  /\ UNCHANGED <<files, taskOutcome, batch>>

\* await Promise.all(...): rejects as soon as one promise rejects, fulfils when
\* all have fulfilled
BatchSettle ==
  /\ batch = "called"
  /\ \/ \E i \in Tasks : entries[i] = RejectedEntry
     \/ \A i \in Tasks : taskPc[i] = "done"
  /\ batch' = IF \E i \in Tasks : entries[i] = RejectedEntry
                THEN "rejected" ELSE "resolved"
  /\ UNCHANGED <<files, taskPc, taskOutcome, entries, settledCount>>

InitBatch ==
  /\ \E n \in 0..MaxFiles : files \in [1..n -> BatchFiles]
  /\ taskPc = [i \in Tasks |-> "new"]
  /\ taskOutcome = [i \in Tasks |-> "pending"]
  /\ entries = [i \in Tasks |-> NoEntry]
  /\ settledCount = 0
  /\ batch = "called"
  /\ OcrIdle
  /\ SpacingIdle
  /\ LaterIdle

NextBatch ==
  \/ (BatchStart /\ UNCHANGED otherThanBatch)
  \/ (\E i \in Tasks : TaskSettle(i) /\ UNCHANGED otherThanBatch)
  \/ (\E i \in Tasks : TaskReturn(i) /\ UNCHANGED otherThanBatch)
  \/ (BatchSettle /\ UNCHANGED otherThanBatch)

SpecBatch == InitBatch /\ [][NextBatch]_vars

\* C8: the batch never rejects; when it resolves, entry i belongs to file i, a file
\* whose extractText threw has success = false with the error, and every other
\* file has its result.
TheoremC8 ==
  /\ batch # "rejected"
  /\ batch = "resolved" =>
       /\ DOMAIN entries = DOMAIN files
       /\ \A i \in Tasks :
            /\ entries[i].file = files[i].filename
            /\ IF taskOutcome[i] = "rejected"
                 THEN ~entries[i].success /\ entries[i].detail = "error"
                 ELSE entries[i].success /\ entries[i].detail = taskOutcome[i]

\* a resolved batch in which a later file failed, an earlier one succeeded, and
\* the failing file's task finished first
WitnessC8 ==
  /\ batch = "resolved"
  /\ Len(files) >= 2
  /\ files[1].filename # files[2].filename
  /\ entries[1].success
  /\ ~entries[2].success
  /\ entries[2].file = files[2].filename

\* the summary used by SpecBatch agrees with the step-by-step model of Spec
ExtractTextSummaryOk ==
  Settled =>
    (IF result.kind = "rejected" THEN "rejected" ELSE result.ocrEngine)
      \in ExtractTextOutcomes(IF filePath = "undefined" THEN "undefined" ELSE "path")

----------------------------------------------------------------------------
(* SpecSpacing: calculateSpacingBetweenWords *)

\* CONFIG.INTELLIGENT_SPACING, the factors in tenths
MIN_WORD_GAP_PIXELS == 3
WORD_SPACING_THRESHOLD_x10 == 5
WIDE_SPACING_THRESHOLD_x10 == 12
LINE_HEIGHT_TOLERANCE_x10 == 7
PARAGRAPH_SPACING_THRESHOLD_x10 == 20
\* the literal factors 2.0, 0.3 and 1.2 of the function, in tenths
TabFactor_x10 == 20
CloseLineFactor_x10 == 3
NormalLineFactor_x10 == 12
\* safeHeight when the average height is not positive
DefaultHeight == 12

\* bounds of the boxes drawn in InitSpacing
MaxOverlap == 3        \* most negative gap
MaxGap == 45           \* largest gap
HeightStep == 4        \* heights are multiples of it
MaxHeightSteps == 5    \* up to HeightStep * MaxHeightSteps
MaxTop == 12           \* largest top of a box
MaxSkew == 1           \* how far the first box's bottom-right corner leans out
WordWidth == 50

Min(a, b) == IF a <= b THEN a ELSE b
Max(a, b) == IF a >= b THEN a ELSE b
Abs(a) == IF a >= 0 THEN a ELSE -a

\* boundingBox: [topLeft_x, topLeft_y, topRight_x, topRight_y, bottomRight_x,
\* bottomRight_y, bottomLeft_x, bottomLeft_y] (1-based here)
Left(b) == Min(b[1], b[7])
Right(b) == Max(b[3], b[5])
Top(b) == Min(b[2], b[4])
Bottom(b) == Max(b[8], b[6])
Height(b) == Bottom(b) - Top(b)

\* mutant of HorizontalGap: measured from the first word's left edge
HorizontalGapFromLeft(b1, b2) == Left(b2) - Left(b1)

\* horizontalGap = word2_left - word1_right
HorizontalGap(b1, b2) == Left(b2) - Right(b1)

\* verticalGap = word2_top - word1_bottom
VerticalGap(b1, b2) == Top(b2) - Bottom(b1)

\* twice verticalCenterDistance = |(top2 + bottom2) - (top1 + bottom1)|
CenterDistance2x(b1, b2) == Abs((Top(b2) + Bottom(b2)) - (Top(b1) + Bottom(b1)))

\* twice safeHeight: averageHeight = (height1 + height2) / 2 when positive, else 12
SafeHeight2x(b1, b2) ==
  IF Height(b1) + Height(b2) > 0 THEN Height(b1) + Height(b2) ELSE 2 * DefaultHeight

\* x <= safeHeight * factor, with safeHeight = sh2x / 2 and factor = tenths / 10.
\* Coordinates are integers, so both sides are exact multiples of 1/20.
LeqScaled(x, sh2x, tenths) == 20 * x <= sh2x * tenths

\* verticalCenterDistance < safeHeight * LINE_HEIGHT_TOLERANCE
SameLine(b1, b2) ==
  10 * CenterDistance2x(b1, b2) < SafeHeight2x(b1, b2) * LINE_HEIGHT_TOLERANCE_x10

\* mutant of SameLineSpacing: the thresholds are exclusive
SameLineSpacingStrict(gap, sh2x) ==
  IF gap < 0 THEN ""
  ELSE IF gap < MIN_WORD_GAP_PIXELS THEN ""
  ELSE IF 20 * gap < sh2x * WORD_SPACING_THRESHOLD_x10 THEN " "
  ELSE IF 20 * gap < sh2x * WIDE_SPACING_THRESHOLD_x10 THEN "  "
  ELSE IF 20 * gap < sh2x * TabFactor_x10 THEN "    "
  ELSE "\t"

\* the branch for words on the same line
SameLineSpacing(gap, sh2x) ==
  IF gap < 0 THEN ""
  ELSE IF gap <= MIN_WORD_GAP_PIXELS THEN ""
  ELSE IF LeqScaled(gap, sh2x, WORD_SPACING_THRESHOLD_x10) THEN " "
  ELSE IF LeqScaled(gap, sh2x, WIDE_SPACING_THRESHOLD_x10) THEN "  "
  ELSE IF LeqScaled(gap, sh2x, TabFactor_x10) THEN "    "
  ELSE "\t"

\* the branch for words on different lines; lineGap = |verticalGap|
DifferentLineSpacing(lineGap, sh2x) ==
  IF LeqScaled(lineGap, sh2x, CloseLineFactor_x10) THEN " "
  ELSE IF LeqScaled(lineGap, sh2x, NormalLineFactor_x10) THEN "\n"
  ELSE IF LeqScaled(lineGap, sh2x, PARAGRAPH_SPACING_THRESHOLD_x10) THEN "\n\n"
  ELSE "\n\n\n"

\* the safety check on the two boundingBox arrays
HasBox(w) == Len(w.boundingBox) >= 8

calculateSpacingBetweenWords(w1, w2) ==
  IF ~HasBox(w1) \/ ~HasBox(w2) THEN " "
  ELSE LET b1 == w1.boundingBox
           b2 == w2.boundingBox
           sh2x == SafeHeight2x(b1, b2)
       IN IF SameLine(b1, b2)
            THEN SameLineSpacing(HorizontalGap(b1, b2), sh2x)
            ELSE DifferentLineSpacing(Abs(VerticalGap(b1, b2)), sh2x)

\* boxes of the pairs: the first word's bottom-right corner may lean out by skew
FirstBox(top, h, skew) ==
  <<0, top, WordWidth, top, WordWidth + skew, top + h, 0, top + h>>
SecondBox(left, top, h) ==
  <<left, top, left + WordWidth, top, left + WordWidth, top + h, left, top + h>>

Heights == {HeightStep * k : k \in 0..MaxHeightSteps}

InitSpacing ==
  /\ \E top \in {0, MaxTop}, h \in Heights, skew \in 0..MaxSkew :
       word1 = [text |-> "Hello", boundingBox |-> FirstBox(top, h, skew)]
  /\ \E gap \in (-MaxOverlap)..MaxGap, top \in 0..MaxTop, h \in Heights :
       word2 = [text |-> "World",
                boundingBox |-> SecondBox(Right(word1.boundingBox) + gap, top, h)]
  /\ spacing = "?"
  /\ OcrIdle
  /\ BatchIdle
  /\ LaterIdle

Classify ==
  /\ spacing = "?"
  /\ spacing' = calculateSpacingBetweenWords(word1, word2)
  /\ UNCHANGED <<word1, word2>>

NextSpacing == Classify /\ UNCHANGED otherThanSpacing

SpecSpacing == InitSpacing /\ [][NextSpacing]_vars

\* the quantities the claims speak of, taken from the corners
GapOf(w1, w2) ==
  Min(w2.boundingBox[1], w2.boundingBox[7]) - Max(w1.boundingBox[3], w1.boundingBox[5])
\* the sum of the two heights: twice the average height h
HeightSum(w1, w2) == Height(w1.boundingBox) + Height(w2.boundingBox)

\* C9 as stated: every pair of boxes of positive height with a negative horizontal
\* gap gets the empty string.
ClaimC9_AsStated ==
  (spacing # "?" /\ GapOf(word1, word2) < 0
     /\ Height(word1.boundingBox) > 0 /\ Height(word2.boundingBox) > 0)
  => spacing = ""

\* C9 amended: every pair ON THE SAME LINE (centre distance below 0.7 times the
\* average height, 12 standing in for a height that is not positive) with a
\* negative horizontal gap gets the empty string.
TheoremC9 ==
  (spacing # "?" /\ GapOf(word1, word2) < 0
     /\ SameLine(word1.boundingBox, word2.boundingBox))
  => spacing = ""

WitnessC9 ==
  /\ spacing = ""
  /\ GapOf(word1, word2) < 0
  /\ SameLine(word1.boundingBox, word2.boundingBox)
  /\ Top(word1.boundingBox) # Top(word2.boundingBox)

\* C10: on the same line, with g the gap and h the (positive) average height:
\* 0 <= g <= 3 gives ""; 3 < g <= 0.5h gives " "; else g <= 1.2h gives "  ";
\* else g <= 2h gives "    "; else a tab.
TheoremC10 ==
  LET g == GapOf(word1, word2)
      hh == HeightSum(word1, word2)
  IN (spacing # "?" /\ hh > 0 /\ g >= 0
        /\ SameLine(word1.boundingBox, word2.boundingBox))
     => spacing = (IF g <= 3 THEN ""
                   ELSE IF 4 * g <= hh THEN " "
                   ELSE IF 5 * g <= 3 * hh THEN "  "
                   ELSE IF g <= hh THEN "    "
                   ELSE "\t")

\* the boundary pair: Hello [0,0,50,0,50,20,0,20], World [60,0,110,0,110,20,60,20]
WitnessC10 ==
  /\ word1.boundingBox = <<0, 0, 50, 0, 50, 20, 0, 20>>
  /\ word2.boundingBox = <<60, 0, 110, 0, 110, 20, 60, 20>>
  /\ spacing = " "

\* C20: when either word's box is degenerate (zero height, hence zero area) the
\* classifier returns a single space, whatever the gap between the boxes.
ClaimC20 ==
  (spacing # "?"
     /\ (Height(word1.boundingBox) = 0 \/ Height(word2.boundingBox) = 0))
  => spacing = " "

----------------------------------------------------------------------------
(* SpecNonFinite: calculateSpacingBetweenWords on boxes that hold NaN or an    *)
(* infinity.  A number is a record: finite with an integer value, infinite     *)
(* with a sign, or NaN; the operators follow IEEE 754 as JavaScript does:      *)
(* arithmetic on NaN gives NaN, every comparison with NaN is false, Math.min   *)
(* and Math.max return NaN when an argument is NaN, and nothing throws.        *)

Fin(n) == [k |-> "fin", v |-> n]
NaN == [k |-> "nan", v |-> 0]
PosInf == [k |-> "inf", v |-> 1]
NegInf == [k |-> "inf", v |-> -1]
NonFinite == {NaN, PosInf, NegInf}

\* a < b
NumLess(a, b) ==
  IF a.k = "nan" \/ b.k = "nan" THEN FALSE
  ELSE IF a.k = "fin" /\ b.k = "fin" THEN a.v < b.v
  ELSE IF a.k = "inf" /\ b.k = "inf" THEN a.v < b.v
  ELSE IF a.k = "inf" THEN a.v < 0
  ELSE b.v > 0

\* a <= b
NumLeq(a, b) ==
  IF a.k = "nan" \/ b.k = "nan" THEN FALSE
  ELSE a = b \/ NumLess(a, b)

\* Math.min(a, b), Math.max(a, b)
NumMin(a, b) ==
  IF a.k = "nan" \/ b.k = "nan" THEN NaN ELSE IF NumLess(b, a) THEN b ELSE a
NumMax(a, b) ==
  IF a.k = "nan" \/ b.k = "nan" THEN NaN ELSE IF NumLess(a, b) THEN b ELSE a

\* -a
NumNeg(a) == IF a.k = "nan" THEN NaN ELSE [a EXCEPT !.v = -a.v]

\* a + b: the infinities of opposite sign add up to NaN
NumAdd(a, b) ==
  IF a.k = "nan" \/ b.k = "nan" THEN NaN
  ELSE IF a.k = "fin" /\ b.k = "fin" THEN Fin(a.v + b.v)
  ELSE IF a.k = "inf" /\ b.k = "inf" THEN (IF a.v = b.v THEN a ELSE NaN)
  ELSE IF a.k = "inf" THEN a
  ELSE b

\* a - b
NumSub(a, b) == NumAdd(a, NumNeg(b))

\* Math.abs(a)
NumAbs(a) == IF a.k = "nan" THEN NaN ELSE [a EXCEPT !.v = Abs(a.v)]

\* a * n for an integer n > 0
NumTimes(a, n) == IF a.k = "fin" THEN Fin(a.v * n) ELSE a

\* the safety check, then the body of the try block on such numbers.  Heights
\* and centres are kept doubled and factors in tenths, as SafeHeight2x and
\* LeqScaled do: x <= safeHeight * t/10 is 20 * x <= (2 * safeHeight) * t.
calculateSpacingNonFinite(w1, w2) ==
  IF ~(Len(w1.boundingBox) >= 8 /\ Len(w2.boundingBox) >= 8) THEN " "
  ELSE
    LET b1 == w1.boundingBox
        b2 == w2.boundingBox
        word1_right == NumMax(b1[3], b1[5])
        word1_top == NumMin(b1[2], b1[4])
        word1_bottom == NumMax(b1[8], b1[6])
        word2_left == NumMin(b2[1], b2[7])
        word2_top == NumMin(b2[2], b2[4])
        word2_bottom == NumMax(b2[8], b2[6])
        horizontalGap == NumSub(word2_left, word1_right)
        verticalGap == NumSub(word2_top, word1_bottom)
        centerDistance2x ==
          NumAbs(NumSub(NumAdd(word2_top, word2_bottom),
                        NumAdd(word1_top, word1_bottom)))
        averageHeight2x ==
          NumAdd(NumSub(word1_bottom, word1_top), NumSub(word2_bottom, word2_top))
        safeHeight2x ==
          IF NumLess(Fin(0), averageHeight2x) THEN averageHeight2x
          ELSE Fin(2 * DefaultHeight)
        sameLine ==
          NumLess(NumTimes(centerDistance2x, 10),
                  NumTimes(safeHeight2x, LINE_HEIGHT_TOLERANCE_x10))
        lineGap == NumAbs(verticalGap)
    IN IF sameLine
         THEN IF NumLess(horizontalGap, Fin(0)) THEN ""
              ELSE IF NumLeq(horizontalGap, Fin(MIN_WORD_GAP_PIXELS)) THEN ""
              ELSE IF NumLeq(NumTimes(horizontalGap, 20),
                             NumTimes(safeHeight2x, WORD_SPACING_THRESHOLD_x10))
                THEN " "
              ELSE IF NumLeq(NumTimes(horizontalGap, 20),
                             NumTimes(safeHeight2x, WIDE_SPACING_THRESHOLD_x10))
                THEN "  "
              ELSE IF NumLeq(NumTimes(horizontalGap, 20),
                             NumTimes(safeHeight2x, TabFactor_x10))
                THEN "    "
              ELSE "\t"
         ELSE IF NumLeq(NumTimes(lineGap, 20),
                        NumTimes(safeHeight2x, CloseLineFactor_x10))
                THEN " "
              ELSE IF NumLeq(NumTimes(lineGap, 20),
                             NumTimes(safeHeight2x, NormalLineFactor_x10))
                THEN "\n"
              ELSE IF NumLeq(NumTimes(lineGap, 20),
                             NumTimes(safeHeight2x, PARAGRAPH_SPACING_THRESHOLD_x10))
                THEN "\n\n"
              ELSE "\n\n\n"

\* a box of integers as a box of such numbers
AsNumbers(box) == [i \in 1..Len(box) |-> Fin(box[i])]
\* the integers of a box without NaN and infinities
AsIntegers(box) == [i \in 1..Len(box) |-> box[i].v]
IsFiniteBox(box) == \A i \in 1..Len(box) : box[i].k = "fin"

\* gaps and tops of the second word, and the height of both
NonFiniteGaps == {-2, 2, 8, 20, 36, 60}
NonFiniteTops == {0, 4, 16, 40}
NonFiniteHeight == 20

\* the pair is a pair of finite boxes in which at most one corner coordinate
\* has been replaced by NaN or an infinity
InitNonFinite ==
  /\ \E gap \in NonFiniteGaps, top \in NonFiniteTops,
        i \in 0..16, x \in NonFinite :
       LET f1 == AsNumbers(FirstBox(0, NonFiniteHeight, 0))
           f2 == AsNumbers(SecondBox(WordWidth + gap, top, NonFiniteHeight))
       IN /\ word1 = [text |-> "Hello",
                      boundingBox |-> IF i \in 1..8 THEN [f1 EXCEPT ![i] = x] ELSE f1]
          /\ word2 = [text |-> "World",
                      boundingBox |-> IF i \in 9..16 THEN [f2 EXCEPT ![i - 8] = x]
                                      ELSE f2]
  /\ spacing = "?"
  /\ OcrIdle
  /\ BatchIdle
  /\ LaterIdle

ClassifyNonFinite ==
  /\ spacing = "?"
  /\ spacing' = calculateSpacingNonFinite(word1, word2)
  /\ UNCHANGED <<word1, word2>>

NextNonFinite == ClassifyNonFinite /\ UNCHANGED otherThanSpacing

SpecNonFinite == InitNonFinite /\ [][NextNonFinite]_vars

\* on finite boxes the two renderings of calculateSpacingBetweenWords agree
NonFiniteAgrees ==
  (spacing # "?" /\ IsFiniteBox(word1.boundingBox) /\ IsFiniteBox(word2.boundingBox))
  => spacing = calculateSpacingBetweenWords(
                 [word1 EXCEPT !.boundingBox = AsIntegers(word1.boundingBox)],
                 [word2 EXCEPT !.boundingBox = AsIntegers(word2.boundingBox)])

\* C19: a pair whose boxes hold a NaN or infinite coordinate gets a single space
ClaimC19 ==
  (spacing # "?"
     /\ ~(IsFiniteBox(word1.boundingBox) /\ IsFiniteBox(word2.boundingBox)))
  => spacing = " "

----------------------------------------------------------------------------
(* SpecNormalizer: cleanAndFormatText on strings.  A string is a sequence of *)
(* one-character strings; each replace(regex, replacement) of the chain is   *)
(* an operator that scans the string from the left, as a global regular      *)
(* expression does: a match consumes its characters and the scan resumes     *)
(* after them.                                                               *)

LowerLetters == <<"a", "b", "c", "d", "e", "f", "g", "h", "i", "j", "k", "l", "m",
                  "n", "o", "p", "q", "r", "s", "t", "u", "v", "w", "x", "y", "z">>
UpperLetters == <<"A", "B", "C", "D", "E", "F", "G", "H", "I", "J", "K", "L", "M",
                  "N", "O", "P", "Q", "R", "S", "T", "U", "V", "W", "X", "Y", "Z">>
LowerCase == {LowerLetters[i] : i \in 1..26}
UpperCase == {UpperLetters[i] : i \in 1..26}
Letters == LowerCase \cup UpperCase
Digits == {"0", "1", "2", "3", "4", "5", "6", "7", "8", "9"}
\* \w
WordChars == Letters \cup Digits \cup {"_"}
\* [.!?]
SentenceEnds == {".", "!", "?"}
\* [ \t]
Blanks == {" ", "\t"}
\* \s, as far as strings can hold it
WhiteSpace == {" ", "\t", "\n", "\r", "\f"}

\* the i flag: a character matches a pattern letter whatever its case
ToLower(c) ==
  IF c \in UpperCase
    THEN LowerLetters[CHOOSE i \in 1..26 : UpperLetters[i] = c]
    ELSE c

\* the words of the (\w)(word)(\w) replacements, in the order of the chain
Keywords == <<
  <<"a","n","d">>, <<"t","h","e">>, <<"t","o">>, <<"o","f">>, <<"i","n">>,
  <<"f","o","r">>, <<"w","i","t","h">>, <<"t","h","a","t">>,
  <<"t","h","i","s">>, <<"f","r","o","m">>, <<"w","i","l","l">>,
  <<"h","a","v","e">>, <<"b","e","e","n">>, <<"w","e","r","e">>,
  <<"a","r","e">>, <<"n","o","t">>, <<"c","a","n">>, <<"a","l","l">>,
  <<"b","u","t">>, <<"w","a","s">>, <<"h","a","s">>, <<"h","a","d">>,
  <<"o","n","e">>, <<"y","o","u">>, <<"m","a","y">>, <<"u","s","e">>,
  <<"i","t","s">>, <<"y","o","u","r">>, <<"t","h","e","i","r">>,
  <<"w","h","a","t">>, <<"s","a","i","d">>, <<"e","a","c","h">>,
  <<"w","h","i","c","h">>, <<"d","o">>, <<"h","o","w">>, <<"i","f">>,
  <<"u","p">>, <<"o","u","t">>, <<"m","a","n","y">>, <<"t","h","e","n">>,
  <<"t","h","e","m">>, <<"t","h","e","s","e">>, <<"s","o">>,
  <<"s","o","m","e">>, <<"h","e","r">>, <<"w","o","u","l","d">>,
  <<"m","a","k","e">>, <<"l","i","k","e">>, <<"t","i","m","e">>,
  <<"v","e","r","y">>, <<"w","h","e","n">>, <<"c","o","m","e">>,
  <<"h","i","s">>, <<"h","e","r","e">>, <<"j","u","s","t">>,
  <<"l","o","n","g">>, <<"g","e","t">>, <<"o","w","n">>, <<"s","a","y">>,
  <<"s","h","e">>, <<"w","a","y">>, <<"t","o","o">>, <<"a","n","y">>,
  <<"d","a","y">>, <<"m","a","n">>, <<"n","e","w">>, <<"n","o","w">>,
  <<"o","l","d">>, <<"s","e","e">>, <<"h","i","m">>, <<"t","w","o">>,
  <<"m","o","r","e">>, <<"g","o">>, <<"n","o">>, <<"f","i","r","s","t">>,
  <<"c","a","l","l">>, <<"w","h","o">>
>>

\* length of the longest prefix of s made of characters of class
RECURSIVE RunLength(_, _)
RunLength(s, class) ==
  IF s = <<>> \/ Head(s) \notin class THEN 0
  ELSE 1 + RunLength(Tail(s), class)

\* s without its first n characters
Drop(s, n) == SubSeq(s, n + 1, Len(s))

\* n copies of c
Repeat(c, n) == [i \in 1..n |-> c]

\* replace(/[class]+/g, " ")
RECURSIVE SqueezeRuns(_, _)
SqueezeRuns(s, class) ==
  IF s = <<>> THEN <<>>
  ELSE IF Head(s) \in class
    THEN <<" ">> \o SqueezeRuns(Drop(s, RunLength(s, class)), class)
    ELSE <<Head(s)>> \o SqueezeRuns(Tail(s), class)

\* replace(/\n{4,}/g, "\n\n\n")
RECURSIVE CapNewlines(_)
CapNewlines(s) ==
  IF s = <<>> THEN <<>>
  ELSE IF Head(s) = "\n"
    THEN LET n == RunLength(s, {"\n"})
         IN  Repeat("\n", IF n >= 4 THEN 3 ELSE n) \o CapNewlines(Drop(s, n))
    ELSE <<Head(s)>> \o CapNewlines(Tail(s))

\* replace(/ +\n/g, "\n")
RECURSIVE DropSpacesBeforeNewline(_)
DropSpacesBeforeNewline(s) ==
  IF s = <<>> THEN <<>>
  ELSE IF Head(s) = " "
    THEN LET n == RunLength(s, {" "})
         IN  IF n < Len(s) /\ s[n + 1] = "\n"
               THEN <<"\n">> \o DropSpacesBeforeNewline(Drop(s, n + 1))
               ELSE Repeat(" ", n) \o DropSpacesBeforeNewline(Drop(s, n))
    ELSE <<Head(s)>> \o DropSpacesBeforeNewline(Tail(s))

\* replace(/\n +/g, "\n")
RECURSIVE DropSpacesAfterNewline(_)
DropSpacesAfterNewline(s) ==
  IF s = <<>> THEN <<>>
  ELSE IF Head(s) = "\n"
    THEN <<"\n">> \o
         DropSpacesAfterNewline(Drop(s, 1 + RunLength(Tail(s), {" "})))
    ELSE <<Head(s)>> \o DropSpacesAfterNewline(Tail(s))

\* replace(/([first])([second])/g, "$1 $2")
RECURSIVE SplitPairs(_, _, _)
SplitPairs(s, first, second) ==
  IF s = <<>> THEN <<>>
  ELSE IF Len(s) >= 2 /\ s[1] \in first /\ s[2] \in second
    THEN <<s[1], " ", s[2]>> \o SplitPairs(Drop(s, 2), first, second)
    ELSE <<Head(s)>> \o SplitPairs(Tail(s), first, second)

\* replace(/([a-z])([A-Z][a-z])/g, "$1 $2")
RECURSIVE SplitCamelCase(_)
SplitCamelCase(s) ==
  IF s = <<>> THEN <<>>
  ELSE IF Len(s) >= 3 /\ s[1] \in LowerCase /\ s[2] \in UpperCase
          /\ s[3] \in LowerCase
    THEN <<s[1], " ", s[2], s[3]>> \o SplitCamelCase(Drop(s, 3))
    ELSE <<Head(s)>> \o SplitCamelCase(Tail(s))

\* s starts with a word character, then kw in any case, then a word character
KeywordAt(s, kw) ==
  /\ Len(s) >= Len(kw) + 2
  /\ s[1] \in WordChars
  /\ \A i \in 1..Len(kw) : ToLower(s[i + 1]) = kw[i]
  /\ s[Len(kw) + 2] \in WordChars

\* replace(/(\w)(kw)(\w)/gi, "$1 $2 $3")
RECURSIVE SplitKeyword(_, _)
SplitKeyword(s, kw) ==
  IF s = <<>> THEN <<>>
  ELSE IF KeywordAt(s, kw)
    THEN <<s[1], " ">> \o SubSeq(s, 2, Len(kw) + 1)
         \o <<" ", s[Len(kw) + 2]>> \o SplitKeyword(Drop(s, Len(kw) + 2), kw)
    ELSE <<Head(s)>> \o SplitKeyword(Tail(s), kw)

\* the keyword replacements kws[i], kws[i+1], ... applied in turn
RECURSIVE SplitKeywords(_, _, _)
SplitKeywords(s, kws, i) ==
  IF i > Len(kws) THEN s
  ELSE SplitKeywords(SplitKeyword(s, kws[i]), kws, i + 1)

\* String.prototype.trim
RECURSIVE TrimLeft(_)
TrimLeft(s) == IF s # <<>> /\ Head(s) \in WhiteSpace THEN TrimLeft(Tail(s)) ELSE s
RECURSIVE TrimRight(_)
TrimRight(s) ==
  IF s # <<>> /\ s[Len(s)] \in WhiteSpace
    THEN TrimRight(SubSeq(s, 1, Len(s) - 1))
    ELSE s
Trim(s) == TrimRight(TrimLeft(s))

\* longest input string
MaxLen == 7
\* characters of the inputs: two letters that spell the words "to" and "too",
\* an upper-case letter, a digit and a space
NormAlphabet == {"t", "o", "A", "1", " "}

\* a keyword replacement can only match a string that holds the keyword's
\* letters: over NormAlphabet the other replacements leave every string as it is
CanMatch(kw) == \A i \in 1..Len(kw) : kw[i] \in {ToLower(c) : c \in NormAlphabet}
ApplicableKeywords == SelectSeq(Keywords, CanMatch)

\* cleanAndFormatText(rawText): the chain of replacements, then trim
cleanAndFormatText(s) ==
  IF s = <<>> THEN <<>>
  ELSE
    LET t1 == SqueezeRuns(s, Blanks)
        t2 == CapNewlines(t1)
        t3 == DropSpacesBeforeNewline(t2)
        t4 == DropSpacesAfterNewline(t3)
        t5 == SplitPairs(t4, LowerCase, UpperCase)
        t6 == SplitPairs(t5, Letters, Digits)
        t7 == SplitPairs(t6, Digits, Letters)
        t8 == SplitPairs(t7, SentenceEnds, UpperCase)
        t9 == SplitCamelCase(t8)
        t10 == SplitKeywords(t9, ApplicableKeywords, 1)
        t11 == SqueezeRuns(t10, WhiteSpace)
    IN  Trim(t11)

RECURSIVE StringsOfLength(_)
StringsOfLength(n) ==
  IF n = 0 THEN {<<>>}
  ELSE {<<c>> \o t : c \in NormAlphabet, t \in StringsOfLength(n - 1)}

InitNormalizer ==
  /\ \E n \in 0..MaxLen : rawText \in StringsOfLength(n)
  /\ cleanedOnce = <<>>
  /\ cleanedTwice = <<>>
  /\ normPc = "raw"
  /\ EarlierIdle
  /\ ProbeIdle
  /\ AsmIdle
  /\ OverlayIdle
  /\ LastIdle

\* pageText = cleanAndFormatText(pageText)
CleanOnce ==
  /\ normPc = "raw"
  /\ cleanedOnce' = cleanAndFormatText(rawText)
  /\ normPc' = "once"
  /\ UNCHANGED <<rawText, cleanedTwice>>

\* const cleanedText = cleanAndFormatText(extractedText), on text that holds the
\* pages' cleaned text
CleanAgain ==
  /\ normPc = "once"
  /\ cleanedTwice' = cleanAndFormatText(cleanedOnce)
  /\ normPc' = "twice"
  /\ UNCHANGED <<rawText, cleanedOnce>>

NextNormalizer ==
  \/ (CleanOnce /\ UNCHANGED otherThanNorm)
  \/ (CleanAgain /\ UNCHANGED otherThanNorm)

SpecNormalizer == InitNormalizer /\ [][NextNormalizer]_vars

\* C11: applying cleanAndFormatText twice gives the same string as applying it
\* once, for every input string
ClaimC11 == normPc = "twice" => cleanedTwice = cleanedOnce

----------------------------------------------------------------------------
(* SpecProbe: checkPDFTextWithPdfParse on a file *)

\* the regular expressions of textIndicators
TextIndicators == 6
\* most matches of one indicator in a file
MaxMatches == 2

\* textIndicatorCount: the matches of the indicators, added up in turn
RECURSIVE TextIndicatorCount(_, _)
TextIndicatorCount(matches, i) ==
  IF i > Len(matches) THEN 0
  ELSE matches[i] + TextIndicatorCount(matches, i + 1)

\* the object returned when the file was read
ProbeAnswer(count) ==
  [method |-> "pdf-parse-regex", hasText |-> HasText(count),
   textLength |-> IF HasText(count) THEN count * 10 ELSE 0, pageCount |-> 1]

\* the object returned by the catch block
ProbeFailure == [method |-> "error", hasText |-> FALSE, textLength |-> 0, pageCount |-> 0]

InitProbe ==
  /\ probedReadable \in BOOLEAN
  /\ probedMatches \in [1..TextIndicators -> 0..MaxMatches]
  /\ probed = NotProbed
  /\ EarlierIdle
  /\ NormIdle
  /\ AsmIdle
  /\ OverlayIdle
  /\ LastIdle

\* checkPDFTextWithPdfParse(filePath): a failing readFile lands in the catch block
CheckPDFText ==
  /\ probed = NotProbed
  /\ probed' = IF probedReadable
                 THEN ProbeAnswer(TextIndicatorCount(probedMatches, 1))
                 ELSE ProbeFailure
  /\ UNCHANGED <<probedReadable, probedMatches>>

NextProbe == CheckPDFText /\ UNCHANGED otherThanProbe

SpecProbe == InitProbe /\ [][NextProbe]_vars

\* the matches in the probed file, all indicators together
ProbedTotal == TextIndicatorCount(probedMatches, 1)

\* C16: checkPDFTextWithPdfParse reports hasText = true exactly when the file was
\* read and holds 6 or more text-indicator matches in total (0 to 5 matches give
\* false), and reports hasText = false when the file cannot be read
TheoremC16 ==
  probed # NotProbed =>
    /\ (probedReadable /\ ProbedTotal >= 6) => probed.hasText
    /\ (probedReadable /\ ProbedTotal <= 5) => ~probed.hasText
    /\ ~probedReadable => ~probed.hasText

\* a readable file with exactly 6 matches was probed and reported as text
WitnessC16 ==
  /\ probed # NotProbed
  /\ probedReadable
  /\ ProbedTotal = 6
  /\ probed.hasText

----------------------------------------------------------------------------
(* SpecAssemble: the page loop of processOCRResults on one page with lines:  *)
(* processLinesWithIntelligentSpacing, then, when the text holds no space,   *)
(* applyForcedSpacingToCompactText and addBasicSpacingToText, then           *)
(* cleanAndFormatText.  A word is [text, boundingBox], a line is             *)
(* [words, boundingBox]; a boundingBox that is undefined is <<>>.            *)

\* the characters of a string returned by a spacing function
Chars(sp) ==
  CASE sp = "" -> <<>>
    [] sp = " " -> <<" ">>
    [] sp = "  " -> <<" ", " ">>
    [] sp = "    " -> <<" ", " ", " ", " ">>
    [] sp = "\t" -> <<"\t">>
    [] sp = "\n" -> <<"\n">>
    [] sp = "\n\n" -> <<"\n", "\n">>
    [] sp = "\n\n\n" -> <<"\n", "\n", "\n">>

\* mutant of SingleWordText: a separator follows the only word
SingleWordTextPadded(word) == word.text \o <<" ">>

\* if (words.length === 1) return words[0].text || ""
SingleWordText(word) == word.text

\* the loop of processWordsWithSpacing from word i on: the word's text, then,
\* unless it is the last, the spacing towards the next word
RECURSIVE WordsFrom(_, _)
WordsFrom(words, i) ==
  words[i].text \o
  (IF i < Len(words)
     THEN (IF HasBox(words[i]) /\ HasBox(words[i + 1])
             THEN Chars(calculateSpacingBetweenWords(words[i], words[i + 1]))
             ELSE <<" ">>)
          \o WordsFrom(words, i + 1)
     ELSE <<>>)

\* processWordsWithSpacing(words): the words are taken in the order given
processWordsWithSpacing(words) ==
  IF Len(words) = 0 THEN <<>>
  ELSE IF Len(words) = 1 THEN SingleWordText(words[1])
  ELSE WordsFrom(words, 1)

\* Math.min / Math.max of the four y coordinates, of the four x coordinates
TopOfFour(b) == Min(Min(b[2], b[4]), Min(b[6], b[8]))
BottomOfFour(b) == Max(Max(b[2], b[4]), Max(b[6], b[8]))
LeftOfFour(b) == Min(Min(b[1], b[3]), Min(b[5], b[7]))

\* calculateSpacingBetweenLines(line1, line2): a line break for an undefined
\* box; a box with fewer than 8 numbers yields NaN, for which every comparison
\* is false
calculateSpacingBetweenLines(line1, line2) ==
  IF line1.boundingBox = <<>> \/ line2.boundingBox = <<>> THEN "\n"
  ELSE IF Len(line1.boundingBox) < 8 \/ Len(line2.boundingBox) < 8 THEN "\n\n\n"
  ELSE LET line1Bottom == BottomOfFour(line1.boundingBox)
           line1Height == line1Bottom - TopOfFour(line1.boundingBox)
           verticalGap == TopOfFour(line2.boundingBox) - line1Bottom
       IN IF 10 * verticalGap <= 3 * line1Height THEN "\n"
          ELSE IF verticalGap <= line1Height THEN "\n"
          ELSE IF verticalGap <= 2 * line1Height THEN "\n\n"
          ELSE "\n\n\n"

\* the loop of processLinesWithIntelligentSpacing from line i on; prev is the
\* index of previousLine, 0 for null
RECURSIVE LinesFrom(_, _, _)
LinesFrom(ls, i, prev) ==
  IF i > Len(ls) THEN <<>>
  ELSE IF Len(ls[i].words) = 0 THEN LinesFrom(ls, i + 1, prev)
  ELSE LET lineText == processWordsWithSpacing(ls[i].words)
           shown == Trim(lineText) # <<>>
       IN (IF prev # 0 /\ shown
             THEN Chars(calculateSpacingBetweenLines(ls[prev], ls[i]))
             ELSE <<>>)
          \o lineText
          \o LinesFrom(ls, i + 1, IF shown THEN i ELSE prev)

processLinesWithIntelligentSpacing(ls) == LinesFrom(ls, 1, 0)

\* allWords of applyForcedSpacingToCompactText: the words that have a box of 8
\* numbers, line after line
RECURSIVE AllWords(_, _)
AllWords(ls, i) ==
  IF i > Len(ls) THEN <<>>
  ELSE SelectSeq(ls[i].words, HasBox) \o AllWords(ls, i + 1)

\* the comparator of allWords.sort: by top when the tops differ by more than
\* half the average height, else by left
CompareWords(a, b) ==
  LET aTop == TopOfFour(a.boundingBox)
      bTop == TopOfFour(b.boundingBox)
      aHeight == BottomOfFour(a.boundingBox) - aTop
      bHeight == BottomOfFour(b.boundingBox) - bTop
  IN IF 4 * Abs(aTop - bTop) > aHeight + bHeight
       THEN aTop - bTop
       ELSE LeftOfFour(a.boundingBox) - LeftOfFour(b.boundingBox)

\* Array.prototype.sort is stable; on the pages below the comparator is a
\* consistent order, so that every stable sort gives the same array
RECURSIVE InsertWord(_, _)
InsertWord(sorted, w) ==
  IF sorted = <<>> THEN <<w>>
  ELSE IF CompareWords(sorted[Len(sorted)], w) > 0
    THEN InsertWord(SubSeq(sorted, 1, Len(sorted) - 1), w) \o <<sorted[Len(sorted)]>>
    ELSE sorted \o <<w>>
RECURSIVE SortWords(_, _)
SortWords(ws, i) ==
  IF i = 0 THEN <<>> ELSE InsertWord(SortWords(ws, i - 1), ws[i])

\* the last loop of applyForcedSpacingToCompactText
RECURSIVE SpacedFrom(_, _)
SpacedFrom(ws, i) ==
  ws[i].text \o
  (IF i < Len(ws)
     THEN Chars(calculateSpacingBetweenWords(ws[i], ws[i + 1])) \o SpacedFrom(ws, i + 1)
     ELSE <<>>)

applyForcedSpacingToCompactText(ls) ==
  LET allWords == AllWords(ls, 1)
  IN IF allWords = <<>> THEN <<>>
     ELSE SpacedFrom(SortWords(allWords, Len(allWords)), 1)

\* pageText.includes(" ")
IncludesSpace(text) == \E i \in 1..Len(text) : text[i] = " "

\* the words of the ([a-z])(word)([a-z]) replacements of addBasicSpacingToText
BasicKeywords == <<
  <<"a","n","d">>, <<"t","h","e">>, <<"t","o">>, <<"o","f">>, <<"i","n">>,
  <<"f","o","r">>, <<"w","i","t","h">>, <<"t","h","a","t">>, <<"t","h","i","s">>,
  <<"f","r","o","m">>, <<"w","i","l","l">>, <<"h","a","v","e">>,
  <<"b","e","e","n">>, <<"w","e","r","e">>, <<"a","r","e">>, <<"n","o","t">>,
  <<"c","a","n">>, <<"a","l","l">>, <<"b","u","t">>, <<"w","a","s">>
>>
ApplicableBasicKeywords == SelectSeq(BasicKeywords, CanMatch)

\* s starts with a letter, then kw in any case, then a letter ([a-z] under the
\* i flag)
LetterKeywordAt(s, kw) ==
  /\ Len(s) >= Len(kw) + 2
  /\ s[1] \in Letters
  /\ \A i \in 1..Len(kw) : ToLower(s[i + 1]) = kw[i]
  /\ s[Len(kw) + 2] \in Letters

\* replace(/([a-z])(kw)([a-z])/gi, "$1 $2 $3")
RECURSIVE SplitLetterKeyword(_, _)
SplitLetterKeyword(s, kw) ==
  IF s = <<>> THEN <<>>
  ELSE IF LetterKeywordAt(s, kw)
    THEN <<s[1], " ">> \o SubSeq(s, 2, Len(kw) + 1)
         \o <<" ", s[Len(kw) + 2]>> \o SplitLetterKeyword(Drop(s, Len(kw) + 2), kw)
    ELSE <<Head(s)>> \o SplitLetterKeyword(Tail(s), kw)

RECURSIVE SplitLetterKeywords(_, _, _)
SplitLetterKeywords(s, kws, i) ==
  IF i > Len(kws) THEN s
  ELSE SplitLetterKeywords(SplitLetterKeyword(s, kws[i]), kws, i + 1)

\* addBasicSpacingToText(concatenatedText)
addBasicSpacingToText(text) ==
  IF text = <<>> \/ IncludesSpace(text) THEN text
  ELSE
    LET t1 == SplitPairs(text, LowerCase, UpperCase)
        t2 == SplitPairs(t1, Letters, Digits)
        t3 == SplitPairs(t2, Digits, Letters)
        t4 == SplitPairs(t3, {".", "!", "?", ",", ":", ";"}, Letters)
        t5 == SplitLetterKeywords(t4, ApplicableBasicKeywords, 1)
        t6 == SqueezeRuns(t5, WhiteSpace)
    IN  Trim(t6)

\* page.lines.some((line) => line.words && line.words.length > 1)
SomeLineHasWords(ls) == \E i \in 1..Len(ls) : Len(ls[i].words) > 1

\* the condition of the second pass
ForcesSpacing(text, ls) == ~IncludesSpace(text) /\ SomeLineHasWords(ls)

\* most lines of a page, most words of a line
MaxLines == 2
MaxWords == 2
\* height of the words and distance between the tops of consecutive lines
AsmHeight == 20
AsmPitch == 30
\* gaps between the words of a line: too small for a space, a normal space, a tab
AsmGaps == {2, 10, 150}
\* the words' texts, by position in the line from the left
AsmTexts == << <<"t", "o">>, <<"A", "1">>, <<"o", "t">>, <<"1", "o">> >>

\* the reverse of a sequence
Reverse(q) == [i \in 1..Len(q) |-> q[Len(q) + 1 - i]]

\* a line of n words on row `row`, `gap` apart, left to right; noBox: the
\* leftmost word comes without a boundingBox; the recognizer reports the words
\* from the left or, with backwards, from the right; lineBox is "full",
\* "short" or "undefined"
LineOf(row, n, gap, noBox, backwards, lineBox) ==
  LET top == (row - 1) * AsmPitch
      word(j) ==
        [text |-> AsmTexts[((j - 1 + MaxWords * (row - 1)) % Len(AsmTexts)) + 1],
         boundingBox |->
           IF noBox /\ j = 1 THEN <<>>
           ELSE SecondBox((j - 1) * (WordWidth + gap), top, AsmHeight)]
      fromLeft == [j \in 1..n |-> word(j)]
      whole == <<0, top, n * (WordWidth + gap), top,
                 n * (WordWidth + gap), top + AsmHeight, 0, top + AsmHeight>>
  IN [words |-> IF backwards THEN Reverse(fromLeft) ELSE fromLeft,
      boundingBox |-> IF lineBox = "full" THEN whole
                      ELSE IF lineBox = "short" THEN SubSeq(whole, 1, 4)
                      ELSE <<>>]

\* what a recognizer can report for a line: so many words, so far apart, the
\* leftmost without a box or not, from the left or from the right
LineShapes == [n : 0..MaxWords, gap : AsmGaps, noBox : BOOLEAN, backwards : BOOLEAN]

InitAssemble ==
  /\ \E n \in 1..MaxLines, lineBox \in {"full", "short", "undefined"} :
      \E shape \in [1..n -> LineShapes] :
       lines = [row \in 1..n |->
                  LineOf(row, shape[row].n, shape[row].gap, shape[row].noBox,
                         shape[row].backwards, lineBox)]
  /\ lineTexts = <<>>
  /\ firstPassText = <<>>
  /\ pageText = <<>>
  /\ passes = <<>>
  /\ asmPc = "first"
  /\ OcrIdle
  /\ BatchIdle
  /\ SpacingIdle
  /\ NormIdle
  /\ ProbeIdle
  /\ OverlayIdle
  /\ LastIdle

\* pageText = processLinesWithIntelligentSpacing(page.lines), and the test that
\* leads to the second pass
FirstPass ==
  /\ asmPc = "first"
  /\ lineTexts' = [i \in 1..Len(lines) |-> processWordsWithSpacing(lines[i].words)]
  /\ firstPassText' = processLinesWithIntelligentSpacing(lines)
  /\ pageText' = firstPassText'
  /\ passes' = <<"intelligent">>
  /\ asmPc' = IF ForcesSpacing(pageText', lines) THEN "forced" ELSE "clean"
  /\ UNCHANGED lines

\* pageText = applyForcedSpacingToCompactText(page.lines), and the test that
\* leads to the third pass
SecondPass ==
  /\ asmPc = "forced"
  /\ pageText' = applyForcedSpacingToCompactText(lines)
  /\ passes' = Append(passes, "forced")
  /\ asmPc' = IF ~IncludesSpace(pageText') THEN "basic" ELSE "clean"
  /\ UNCHANGED <<lines, lineTexts, firstPassText>>

\* pageText = addBasicSpacingToText(pageText)
ThirdPass ==
  /\ asmPc = "basic"
  /\ pageText' = addBasicSpacingToText(pageText)
  /\ passes' = Append(passes, "basic")
  /\ asmPc' = "clean"
  /\ UNCHANGED <<lines, lineTexts, firstPassText>>

\* pageText = cleanAndFormatText(pageText)
CleanPage ==
  /\ asmPc = "clean"
  /\ pageText' = cleanAndFormatText(pageText)
  /\ asmPc' = "done"
  /\ UNCHANGED <<lines, lineTexts, firstPassText, passes>>

NextAssemble ==
  \/ (FirstPass /\ UNCHANGED otherThanAsm)
  \/ (SecondPass /\ UNCHANGED otherThanAsm)
  \/ (ThirdPass /\ UNCHANGED otherThanAsm)
  \/ (CleanPage /\ UNCHANGED otherThanAsm)

SpecAssemble == InitAssemble /\ [][NextAssemble]_vars

\* the text holds no whitespace character at all
NoWhitespace(text) == \A i \in 1..Len(text) : text[i] \notin WhiteSpace

\* C12: the second pass is applied if and only if the first pass yielded text
\* without any whitespace while some line has more than one word; the third pass
\* is applied only when the second pass's output holds no whitespace.
ClaimC12 ==
  /\ asmPc = "forced" => (NoWhitespace(firstPassText) /\ SomeLineHasWords(lines))
  /\ (asmPc = "clean" /\ passes = <<"intelligent">>)
       => ~(NoWhitespace(firstPassText) /\ SomeLineHasWords(lines))
  /\ asmPc = "basic" => NoWhitespace(pageText)

\* C17: on a page in which every line has exactly one word, the text of each
\* line is that word's text, and the page text holds no space and no tab.
TheoremC17 ==
  (asmPc # "first" /\ \A i \in 1..Len(lines) : Len(lines[i].words) = 1)
  => /\ \A i \in 1..Len(lines) : lineTexts[i] = lines[i].words[1].text
     /\ \A k \in 1..Len(firstPassText) : firstPassText[k] \notin {" ", "\t"}

\* a page of two one-word lines has been assembled
WitnessC17 ==
  /\ asmPc = "done"
  /\ Len(lines) = 2
  /\ \A i \in 1..Len(lines) : Len(lines[i].words) = 1
  /\ firstPassText = lines[1].words[1].text \o <<"\n">> \o lines[2].words[1].text

\* C18: the text of a line whose words all have a box is the same for every
\* order in which the recognizer reports the words (here: the reported order and
\* its reverse).
ClaimC18 ==
  asmPc # "first" =>
    \A i \in 1..Len(lines) :
      (\A j \in 1..Len(lines[i].words) : HasBox(lines[i].words[j]))
      => processWordsWithSpacing(Reverse(lines[i].words)) = lineTexts[i]

----------------------------------------------------------------------------
(* SpecOverlay: extractTextWithOverlay(filePath, mimetype, true) from the     *)
(* moment extractText has resolved with a recognition result of one page:     *)
(* generateOverlayPDF with the two composers, createSimpleTextOnlyPDF, the    *)
(* return.  Coordinates are exact fractions: a drawText call is recorded with *)
(* numerators over the source page's width and height.  Floating point        *)
(* rounds the products, and Math.max / Math.min then clamp the rounded value  *)
(* between the same bounds.  The output lies next to the input file, in the   *)
(* upload directory, and jsPDF's save there is taken to succeed.              *)

\* sizes of the PDF's page: pdfPage.getSize()
PdfPageSizes == {[width |-> 500, height |-> 500], [width |-> 8, height |-> 15]}
\* top-left corners of a line's first word, on the page and off it
OverlayLefts == {-20, 100, 1200}
OverlayTops == {-40, 100, 990}
OverlayHeight == 20

\* a line: one word; two words, reported from the left or ("backwards") from the
\* right; or two words of which the second has no box
OverlayLine(left, top, kind) ==
  LET first == [text |-> AsmTexts[1],
                boundingBox |-> SecondBox(left, top, OverlayHeight)]
      second == [text |-> AsmTexts[2],
                 boundingBox |-> IF kind = "noBox" THEN <<>>
                                 ELSE SecondBox(left + WordWidth + 10, top,
                                                OverlayHeight)]
  IN [words |-> IF kind = "one" THEN <<first>>
                ELSE IF kind = "backwards" THEN <<second, first>>
                ELSE <<first, second>>,
      boundingBox |-> <<>>]
OverlayLines ==
  {OverlayLine(left, top, kind) :
     left \in OverlayLefts, top \in OverlayTops,
     kind \in {"one", "two", "backwards", "noBox"}}

\* mutant of Clamp: the value is passed on as computed
ClampNot(lo, hi, v) == v

\* Math.max(lo, Math.min(hi, v))
Clamp(lo, hi, v) == Max(lo, Min(hi, v))

\* mutant of SourceHeight: the target page's height, whatever the source's
SourceHeightOfTarget(in) == in.pdfPage.height

\* page.width || pageWidth, page.height || pageHeight
SourceWidth(in) ==
  IF in.page.width # 0 THEN in.page.width ELSE in.pdfPage.width
SourceHeight(in) ==
  IF in.page.height # 0 THEN in.page.height ELSE in.pdfPage.height

\* sort((a, b) => a.boundingBox[0] - b.boundingBox[0]) of one or two words with
\* boxes
SortedByLeft(words) ==
  IF Len(words) = 2 /\ words[2].boundingBox[1] < words[1].boundingBox[1]
    THEN <<words[2], words[1]>>
    ELSE words

\* const words = [...line.words].sort(...); words[0]
FirstWordOf(line) == SortedByLeft(line.words)[1]

\* mutant of WordsAfterSort: line.words.sort(...) sorts the line's own array
WordsSortedInPlace(words) == SortedByLeft(words)

\* line.words after [...line.words].sort(...): the copy is sorted
WordsAfterSort(words) == words

\* the sort and the reads of boundingBox throw a TypeError on a word without one
Drawable(line) == \A j \in 1..Len(line.words) : line.words[j].boundingBox # <<>>

\* the drawText call of a line: x and y times the source width and height, and
\* the unclamped pdfY times the source height
DrawCall(in, line) ==
  LET b == FirstWordOf(line).boundingBox
      pageWidth == in.pdfPage.width
      pageHeight == in.pdfPage.height
      minY == TopOfFour(b)
      textHeight == BottomOfFour(b) - minY
      startX == LeftOfFour(b) * pageWidth
      pdfY == pageHeight * SourceHeight(in) - minY * pageHeight
                - textHeight * pageHeight
  IN [call |-> "drawText",
      xTimes |-> Clamp(0, (pageWidth - 10) * SourceWidth(in), startX),
      xOver |-> SourceWidth(in),
      yTimes |-> Clamp(10 * SourceHeight(in), (pageHeight - 10) * SourceHeight(in),
                       pdfY),
      yOver |-> SourceHeight(in),
      pdfYTimes |-> pdfY]

\* the calls made line after line until a line throws
RECURSIVE DrawCallsFrom(_, _)
DrawCallsFrom(in, i) ==
  IF i > Len(in.page.lines) THEN <<>>
  ELSE IF Len(in.page.lines[i].words) = 0 THEN DrawCallsFrom(in, i + 1)
  ELSE IF ~Drawable(in.page.lines[i]) THEN <<>>
  ELSE <<DrawCall(in, in.page.lines[i])>> \o DrawCallsFrom(in, i + 1)

\* CONFIG.PDF_FONT_SIZE
PDF_FONT_SIZE == 17

\* createContinuousSearchablePdf's doc.text call of a line: startX, and the
\* average over the words of maxY - descent, descent = fontSize * 0.2, in tenths
\* over the number of words
TextCall(line) ==
  LET n == Len(line.words)
      baselineTenths(j) ==
        10 * BottomOfFour(line.words[j].boundingBox) - 2 * PDF_FONT_SIZE
  IN [call |-> "text",
      xTimes |-> LeftOfFour(FirstWordOf(line).boundingBox),
      xOver |-> 1,
      yTimes |-> IF n = 1 THEN baselineTenths(1)
                 ELSE baselineTenths(1) + baselineTenths(2),
      yOver |-> 10 * n]

RECURSIVE TextCallsFrom(_, _)
TextCallsFrom(in, i) ==
  IF i > Len(in.page.lines) THEN <<>>
  ELSE IF Len(in.page.lines[i].words) = 0 THEN TextCallsFrom(in, i + 1)
  ELSE IF ~Drawable(in.page.lines[i]) THEN <<>>
  ELSE <<TextCall(in.page.lines[i])>> \o TextCallsFrom(in, i + 1)

\* page.lines after a composer's loop, which ends at the first line that throws
LinesAfterCompose(in) ==
  [i \in 1..Len(in.page.lines) |->
     IF in.loadable /\ \A j \in 1..i : Drawable(in.page.lines[j])
       THEN [in.page.lines[i] EXCEPT !.words = WordsAfterSort(@)]
       ELSE in.page.lines[i]]

SomeWordWithoutBox(in) ==
  \E i \in 1..Len(in.page.lines) : ~Drawable(in.page.lines[i])

\* the try block of a composer fails: the file cannot be read or loaded by the
\* composer's library, or a word has no box
ComposerFails(in) == ~in.loadable \/ SomeWordWithoutBox(in)

\* mutant of FromPDFCatches: the catch block of createContinuousSearchablePdfFromPDF
\* rethrows as that of createContinuousSearchablePdf does
FromPDFRethrows == FALSE

\* createContinuousSearchablePdfFromPDF's catch block renders the lines as plain
\* text with jsPDF
FromPDFCatches == TRUE

InitOverlay ==
  /\ \E n \in {1, 2} :
       ovInput \in [mimetype : {"application/pdf", "image/png"},
                    pdfExtension : BOOLEAN,
                    loadable : BOOLEAN,
                    pdfPage : PdfPageSizes,
                    page : [width : {0, 1000}, height : {0, 1000},
                            lines : [1..n -> OverlayLines]]]
  /\ ovPc = "generate"
  /\ ovDrawn = <<>>
  /\ ovArtifact = "none"
  /\ ovThrew = {}
  /\ ovResult = "none"
  /\ OcrIdle
  /\ BatchIdle
  /\ SpacingIdle
  /\ NormIdle
  /\ ProbeIdle
  /\ AsmIdle
  /\ LastIdle

\* generateOverlayPDF(filePath, ocrResults, overlayPath): the composer is chosen
\* by the file's extension; createContinuousSearchablePdfFromPDF renders plain
\* text when its overlay fails, createContinuousSearchablePdf rethrows
OvGenerate ==
  /\ ovPc = "generate"
  /\ IF ovInput.pdfExtension
       THEN /\ ovDrawn' = IF ovInput.loadable THEN DrawCallsFrom(ovInput, 1)
                          ELSE <<>>
            /\ IF ~ComposerFails(ovInput)
                 THEN ovArtifact' = "overlay" /\ ovThrew' = {}
                 ELSE IF FromPDFCatches
                 THEN ovArtifact' = "plainText" /\ ovThrew' = {"overlay"}
                 ELSE /\ ovArtifact' = "none"
                      /\ ovThrew' = {"overlay",
                                     "createContinuousSearchablePdfFromPDF",
                                     "generateOverlayPDF"}
       ELSE /\ ovDrawn' = IF ovInput.loadable THEN TextCallsFrom(ovInput, 1)
                          ELSE <<>>
            /\ IF ~ComposerFails(ovInput)
                 THEN ovArtifact' = "imageOverlay" /\ ovThrew' = {}
                 ELSE /\ ovArtifact' = "none"
                      /\ ovThrew' = {"createContinuousSearchablePdf",
                                     "generateOverlayPDF"}
  /\ ovPc' = IF "generateOverlayPDF" \in ovThrew'
                /\ ovInput.mimetype = "application/pdf"
               THEN "simple" ELSE "return"
  /\ ovInput' = [ovInput EXCEPT !.page.lines = LinesAfterCompose(ovInput)]
  /\ UNCHANGED ovResult
  /\ UNCHANGED otherThanOverlay

\* createSimpleTextOnlyPDF(ocrResults, overlayPath) after a failed overlay of a
\* file of mimetype application/pdf
OvSimpleText ==
  /\ ovPc = "simple"
  /\ ovArtifact' = "simpleText"
  /\ ovPc' = "return"
  /\ UNCHANGED <<ovInput, ovDrawn, ovThrew, ovResult>>
  /\ UNCHANGED otherThanOverlay

\* return ocrResults, with overlayPDFPath when a file was produced
OvReturn ==
  /\ ovPc = "return"
  /\ ovResult' = [ocrEngine |-> "Azure Computer Vision",
                  hasOverlayPDFPath |-> ovArtifact # "none"]
  /\ ovPc' = "done"
  /\ UNCHANGED <<ovInput, ovDrawn, ovArtifact, ovThrew>>
  /\ UNCHANGED otherThanOverlay

NextOverlay == OvGenerate \/ OvSimpleText \/ OvReturn

SpecOverlay == InitOverlay /\ [][NextOverlay]_vars

\* a drawText call lies within 0 <= x <= pageWidth - 10, 10 <= y <= pageHeight - 10
WithinPage(d) ==
  /\ 0 <= d.xTimes
  /\ d.xTimes <= (ovInput.pdfPage.width - 10) * d.xOver
  /\ 10 * d.yOver <= d.yTimes
  /\ d.yTimes <= (ovInput.pdfPage.height - 10) * d.yOver
DrawTextWithinPage ==
  \A i \in 1..Len(ovDrawn) : ovDrawn[i].call = "drawText" => WithinPage(ovDrawn[i])

\* the source page 1000x1000 on the target 500x500, first line's first word at
\* (100,100), height 20
ScenarioC13 ==
  /\ ovInput.pdfExtension
  /\ ovInput.loadable
  /\ ovInput.pdfPage = [width |-> 500, height |-> 500]
  /\ ovInput.page.width = 1000
  /\ ovInput.page.height = 1000
  /\ Drawable(ovInput.page.lines[1])
  /\ FirstWordOf(ovInput.page.lines[1]).boundingBox = SecondBox(100, 100, 20)

\* C13 as stated: in the document-backed overlay every drawText call of a line
\* with finite geometry has 0 <= x <= pageWidth - 10 and 10 <= y <= pageHeight - 10,
\* whatever the size of the page.
ClaimC13 == ovPc # "generate" => DrawTextWithinPage

\* C13: on a page at least 10 wide and 20 high, every drawText call of the
\* document-backed overlay has 0 <= x <= pageWidth - 10 and
\* 10 <= y <= pageHeight - 10; a word at (100,100) of height 20 on a 1000x1000
\* source page is drawn on the 500x500 target at x = 50, y = 440.
TheoremC13 ==
  ovPc # "generate" =>
    /\ (ovInput.pdfPage.width >= 10 /\ ovInput.pdfPage.height >= 20)
         => DrawTextWithinPage
    /\ ScenarioC13 =>
         /\ Len(ovDrawn) >= 1
         /\ ovDrawn[1].xTimes = 50 * ovDrawn[1].xOver
         /\ ovDrawn[1].yTimes = 440 * ovDrawn[1].yOver

\* the scenario's word drawn at (50, 440), followed by a line from beyond the
\* right and bottom edges of the source page, drawn at (490, 10)
WitnessC13 ==
  /\ ovPc = "done"
  /\ ScenarioC13
  /\ Len(ovDrawn) = 2
  /\ ovDrawn[1].xTimes = 50 * 1000 /\ ovDrawn[1].yTimes = 440 * 1000
  /\ ovDrawn[2].pdfYTimes < 0
  /\ ovDrawn[2].xTimes = 490 * 1000 /\ ovDrawn[2].yTimes = 10 * 1000

\* C14: when the overlay onto a PDF fails, createContinuousSearchablePdfFromPDF
\* renders the recognized lines as plain text instead; when generateOverlayPDF
\* throws for a file of mimetype application/pdf, createSimpleTextOnlyPDF does;
\* in both cases extractTextWithOverlay returns the recognition result, with the
\* path of the rendering.
TheoremC14 ==
  ovPc = "done" =>
    /\ ovResult.ocrEngine = "Azure Computer Vision"
    /\ (ovInput.pdfExtension /\ ComposerFails(ovInput))
         => ovArtifact = "plainText" /\ ovResult.hasOverlayPDFPath
    /\ (ovInput.mimetype = "application/pdf" /\ ComposerFails(ovInput))
         => ovArtifact \in {"plainText", "simpleText"}
            /\ ovResult.hasOverlayPDFPath

\* a PDF that cannot be loaded: the plain text rendering, and the result
WitnessC14 ==
  /\ ovPc = "done"
  /\ ovInput.pdfExtension
  /\ ovInput.mimetype = "application/pdf"
  /\ ~ovInput.loadable
  /\ "overlay" \in ovThrew
  /\ ovArtifact = "plainText"
  /\ ovResult.hasOverlayPDFPath

\* C15 as stated, for the overlay composers: a word without bounding data makes
\* neither composer throw, and no exception leaves generateOverlayPDF.
ClaimC15 ==
  (ovPc = "done" /\ ovInput.loadable /\ SomeWordWithoutBox(ovInput))
    => "generateOverlayPDF" \notin ovThrew

----------------------------------------------------------------------------
(* SpecLineBreak: calculateSpacingBetweenLines applied to two consecutive     *)
(* lines, the second below, touching or overlapping the first.                *)

\* heights of the lines and vertical gaps between them, around 0.3, 1.0, 1.2 and
\* 2.0 times either height
LineBreakHeights == {10, 20}
LineBreakGaps == {-5, 0, 3, 4, 6, 7, 10, 11, 12, 13, 20, 21, 22, 24, 25, 40, 41}

\* a line of one word whose box is the line's box
LineWithBox(top, h, boxed) ==
  LET box == SecondBox(0, top, h)
  IN [words |-> <<[text |-> AsmTexts[1], boundingBox |-> box]>>,
      boundingBox |-> IF boxed THEN box ELSE <<>>]

InitLineBreak ==
  /\ \E h1 \in LineBreakHeights, h2 \in LineBreakHeights, gap \in LineBreakGaps,
        boxed1 \in BOOLEAN, boxed2 \in BOOLEAN :
       /\ lbLine1 = LineWithBox(0, h1, boxed1)
       /\ lbLine2 = LineWithBox(h1 + gap, h2, boxed2)
  /\ lbResult = "?"
  /\ EarlierIdle
  /\ NormIdle
  /\ ProbeIdle
  /\ AsmIdle
  /\ OverlayIdle
  /\ ParaIdle
  /\ UploadIdle

BreakLines ==
  /\ lbResult = "?"
  /\ lbResult' = calculateSpacingBetweenLines(lbLine1, lbLine2)
  /\ UNCHANGED <<lbLine1, lbLine2>>
  /\ UNCHANGED otherThanLineBreak

NextLineBreak == BreakLines

SpecLineBreak == InitLineBreak /\ [][NextLineBreak]_vars

\* C21 as stated: between two lines with boxes the break follows the table of the
\* vertical gap over the first line's height: <= 0.3 a space, <= 1.2 a line
\* break, <= 2.0 a paragraph break, above 2.0 a section break.
ClaimC21 ==
  (lbResult # "?" /\ lbLine1.boundingBox # <<>> /\ lbLine2.boundingBox # <<>>) =>
    LET height == BottomOfFour(lbLine1.boundingBox) - TopOfFour(lbLine1.boundingBox)
        gap == TopOfFour(lbLine2.boundingBox) - BottomOfFour(lbLine1.boundingBox)
    IN lbResult = IF 10 * gap <= 3 * height THEN " "
                  ELSE IF 10 * gap <= 12 * height THEN "\n"
                  ELSE IF gap <= 2 * height THEN "\n\n"
                  ELSE "\n\n\n"

----------------------------------------------------------------------------
(* SpecNormLines: cleanAndFormatText on texts of several lines                *)

LineAlphabet == {"t", " ", "\n"}

RECURSIVE LinesOfLength(_)
LinesOfLength(n) ==
  IF n = 0 THEN {<<>>}
  ELSE {<<c>> \o t : c \in LineAlphabet, t \in LinesOfLength(n - 1)}

InitNormLines ==
  /\ \E n \in 0..MaxLen : rawText \in LinesOfLength(n)
  /\ cleanedOnce = <<>>
  /\ cleanedTwice = <<>>
  /\ normPc = "raw"
  /\ EarlierIdle
  /\ ProbeIdle
  /\ AsmIdle
  /\ OverlayIdle
  /\ LastIdle

SpecNormLines == InitNormLines /\ [][NextNormalizer]_vars

\* a line break of s with text somewhere before it and somewhere after it
BreaksBetweenText(s) ==
  {i \in 1..Len(s) : /\ s[i] = "\n"
                     /\ \E j \in 1..(i - 1) : s[j] \notin WhiteSpace
                     /\ \E j \in (i + 1)..Len(s) : s[j] \notin WhiteSpace}

\* C22 as stated, in part: the normalizer preserves line breaks, so a text with a
\* line break between two lines of text is normalized to a text with a line break.
ClaimC22 ==
  (normPc # "raw" /\ BreaksBetweenText(rawText) # {})
    => \E i \in 1..Len(cleanedOnce) : cleanedOnce[i] = "\n"

----------------------------------------------------------------------------
(* SpecParagraphs: detectAndFormatParagraphs.  A line of the input is given   *)
(* by what the function reads of it after trim(): its length, whether it ends *)
(* in . ! or ?, whether it starts with A-Z.  The returned text is a sequence  *)
(* of the lines' texts (by index), line breaks and spaces.                    *)

MaxParaLines == 3

\* lengths of trimmed lines: around the bound 50 and 20 apart
ParaLengths == {10, 30, 31, 49, 50}

\* a line that is empty after trim()
BlankLine == [length |-> 0, endsWithPunctuation |-> FALSE,
              startsWithCapital |-> FALSE]

ParaLineKinds ==
  {BlankLine} \cup [length : ParaLengths, endsWithPunctuation : BOOLEAN,
                    startsWithCapital : BOOLEAN]

\* the text of line i, a line break, a space
LineText(i) == [t |-> "line", i |-> i]
LineBreak == [t |-> "\n", i |-> 0]
Space == [t |-> " ", i |-> 0]

\* mutant of SeparatorAfter: without the heading heuristic
SeparatorAfterNoHeading(cur, next, previousLineLength) ==
  IF cur.endsWithPunctuation /\ next.startsWithCapital THEN <<LineBreak, LineBreak>>
  ELSE IF cur.endsWithPunctuation THEN <<LineBreak>>
  ELSE <<Space>>

\* what is appended after currentLine when nextLine is not empty
SeparatorAfter(cur, next, previousLineLength) ==
  IF cur.endsWithPunctuation /\ next.startsWithCapital THEN <<LineBreak, LineBreak>>
  ELSE IF cur.length < 50 /\ Abs(cur.length - previousLineLength) > 20
    THEN <<LineBreak, LineBreak>>
  ELSE IF cur.endsWithPunctuation THEN <<LineBreak>>
  ELSE <<Space>>

\* formattedText.endsWith("\n\n")
EndsWithTwoBreaks(text) ==
  /\ Len(text) >= 2
  /\ text[Len(text)] = LineBreak
  /\ text[Len(text) - 1] = LineBreak

\* the loop from line i on
RECURSIVE ParagraphsFrom(_, _, _, _)
ParagraphsFrom(ls, i, text, previousLineLength) ==
  IF i > Len(ls) THEN text
  ELSE IF ls[i].length = 0
    THEN ParagraphsFrom(ls, i + 1,
                        IF text # <<>> /\ ~EndsWithTwoBreaks(text)
                          THEN Append(text, LineBreak) ELSE text,
                        previousLineLength)
  ELSE LET nextLine == IF i < Len(ls) THEN ls[i + 1] ELSE BlankLine
       IN ParagraphsFrom(ls, i + 1,
                         text \o <<LineText(i)>>
                           \o (IF nextLine.length > 0
                                 THEN SeparatorAfter(ls[i], nextLine,
                                                     previousLineLength)
                                 ELSE <<>>),
                         ls[i].length)

\* String.prototype.trim on a text that starts with a line's text
RECURSIVE TrimText(_)
TrimText(text) ==
  IF text # <<>> /\ text[Len(text)].t # "line"
    THEN TrimText(SubSeq(text, 1, Len(text) - 1))
    ELSE text

detectAndFormatParagraphs(ls) == TrimText(ParagraphsFrom(ls, 1, <<>>, 0))

InitParagraphs ==
  /\ \E n \in 1..MaxParaLines : paraLines \in [1..n -> ParaLineKinds]
  /\ formattedText = <<>>
  /\ paraPc = "text"
  /\ EarlierIdle
  /\ NormIdle
  /\ ProbeIdle
  /\ AsmIdle
  /\ OverlayIdle
  /\ LineBreakIdle
  /\ UploadIdle

FormatParagraphs ==
  /\ paraPc = "text"
  /\ formattedText' = detectAndFormatParagraphs(paraLines)
  /\ paraPc' = "formatted"
  /\ UNCHANGED paraLines
  /\ UNCHANGED otherThanPara

NextParagraphs == FormatParagraphs

SpecParagraphs == InitParagraphs /\ [][NextParagraphs]_vars

\* what the returned text holds between the texts of lines k and m
PositionOf(k) == CHOOSE p \in 1..Len(formattedText) : formattedText[p] = LineText(k)
Between(k, m) == SubSeq(formattedText, PositionOf(k) + 1, PositionOf(m) - 1)

NonBlank(k) == paraLines[k].length > 0

\* the length of the last non-blank line before line k, 0 when there is none
RECURSIVE LengthBefore(_)
LengthBefore(k) ==
  IF k = 1 THEN 0
  ELSE IF NonBlank(k - 1) THEN paraLines[k - 1].length
  ELSE LengthBefore(k - 1)

\* C23: two consecutive non-blank lines are joined by a paragraph break when the
\* first ends in . ! or ? and the second starts with an uppercase letter, or when
\* the first has fewer than 50 characters and its length differs by more than 20
\* from that of the previous non-blank line (0 for the first line of the text);
\* else by a line break when the first ends in . ! or ?; else by a space.
TheoremC23 ==
  paraPc = "formatted" =>
    \A k \in 1..(Len(paraLines) - 1) :
      (NonBlank(k) /\ NonBlank(k + 1)) =>
        LET cur == paraLines[k]
            sentenceEnd == cur.endsWithPunctuation
            paragraphEnd == sentenceEnd /\ paraLines[k + 1].startsWithCapital
            difference == IF cur.length >= LengthBefore(k)
                            THEN cur.length - LengthBefore(k)
                            ELSE LengthBefore(k) - cur.length
            heading == cur.length < 50 /\ difference > 20
        IN /\ (paragraphEnd \/ heading) => Between(k, k + 1) = <<LineBreak, LineBreak>>
           /\ (~paragraphEnd /\ ~heading /\ sentenceEnd)
                => Between(k, k + 1) = <<LineBreak>>
           /\ (~heading /\ ~sentenceEnd) => Between(k, k + 1) = <<Space>>

\* three lines, each case once: a short line 21 longer than the line before it is
\* followed by a paragraph break though it ends no sentence; the line before it
\* ends a sentence and is followed by a line break
WitnessC23 ==
  /\ paraPc = "formatted"
  /\ Len(paraLines) = 3
  /\ paraLines[1] = [length |-> 10, endsWithPunctuation |-> TRUE,
                     startsWithCapital |-> TRUE]
  /\ paraLines[2] = [length |-> 31, endsWithPunctuation |-> FALSE,
                     startsWithCapital |-> FALSE]
  /\ NonBlank(3)
  /\ formattedText = <<LineText(1), LineBreak, LineText(2), LineBreak, LineBreak,
                       LineText(3)>>

\* C24 as stated: every run of one or more blank lines between two non-blank
\* lines becomes a paragraph break, an empty line, between them.
ClaimC24 ==
  paraPc = "formatted" =>
    \A k \in 1..Len(paraLines), m \in 1..Len(paraLines) :
      (/\ k + 1 < m
       /\ NonBlank(k)
       /\ NonBlank(m)
       /\ \A j \in (k + 1)..(m - 1) : ~NonBlank(j))
        => Between(k, m) = <<LineBreak, LineBreak>>

\* the first word of the line that the i-th drawText call is for: every line has
\* words, and the calls stop at the first line that throws
DrawnBox(i) == FirstWordOf(ovInput.page.lines[i]).boundingBox

\* C25: with scaleX = pageWidth / page.width and scaleY = pageHeight / page.height,
\* each 1 when the page's dimension is unknown, a line is drawn at
\* pdfY = pageHeight - top * scaleY - height * scaleY before clamping, and at
\* x = left * scaleX where that lies within the page; of two lines, the one that
\* ends above the other's top has the larger pdfY.
TheoremC25 ==
  (ovPc # "generate" /\ ovInput.pdfExtension) =>
    \A i \in 1..Len(ovDrawn) :
      LET W == ovInput.pdfPage.width
          H == ovInput.pdfPage.height
          top == TopOfFour(DrawnBox(i))
          height == BottomOfFour(DrawnBox(i)) - top
          left == LeftOfFour(DrawnBox(i))
          d == ovDrawn[i]
      IN /\ d.xOver = IF ovInput.page.width = 0 THEN W ELSE ovInput.page.width
         /\ d.yOver = IF ovInput.page.height = 0 THEN H ELSE ovInput.page.height
         /\ ovInput.page.height = 0 => d.pdfYTimes = (H - top - height) * d.yOver
         /\ d.pdfYTimes = H * d.yOver - top * H - height * H
         /\ (0 <= left * W /\ left * W <= (W - 10) * d.xOver) => d.xTimes = left * W
         /\ \A j \in 1..Len(ovDrawn) :
              BottomOfFour(DrawnBox(i)) <= TopOfFour(DrawnBox(j))
                => d.pdfYTimes > ovDrawn[j].pdfYTimes

\* a page 1000 high on a target 15 high, a line at the top and a line below it:
\* pdfY = 15 - 100 * 0.015 - 20 * 0.015 = 13.2 and 15 - 990 * 0.015 - 0.3 = -0.15
WitnessC25 ==
  /\ ovPc = "done"
  /\ ovInput.pdfExtension
  /\ ovInput.pdfPage.height = 15
  /\ ovInput.page.height = 1000
  /\ ovInput.page.width = 0
  /\ Len(ovDrawn) = 2
  /\ ovDrawn[1].pdfYTimes = 13200
  /\ ovDrawn[2].pdfYTimes = -150
  /\ ovDrawn[1].xOver = 8

----------------------------------------------------------------------------
(* SpecStages: the stages that are handed the recognized page: the assembler  *)
(* of processOCRResults, or the overlay composers and text-only fallbacks of  *)
(* extractTextWithOverlay                                                     *)

InitStages == InitAssemble \/ InitOverlay

NextStages == NextAssemble \/ NextOverlay

SpecStages == InitStages /\ [][NextStages]_vars

\* C26: no step of the assembler (the three spacing passes, the cleaning) and no
\* step of extractTextWithOverlay (the composers, the text-only fallbacks)
\* changes the lines and words it is given.
TheoremC26 == [][lines' = lines /\ ovInput' = ovInput]_vars

\* a composer has drawn a line whose words came right to left: it was drawn from
\* its leftmost word, and the words are still in the order given
WitnessC26 ==
  /\ ovPc = "done"
  /\ ovInput.loadable
  /\ ovInput.pdfExtension
  /\ ovInput.pdfPage.width = 500
  /\ ovInput.page.width = 0
  /\ Len(ovInput.page.lines[1].words) = 2
  /\ ovInput.page.lines[1].words[1].boundingBox = SecondBox(160, 100, 20)
  /\ ovInput.page.lines[1].words[2].boundingBox = SecondBox(100, 100, 20)
  /\ Len(ovDrawn) >= 1
  /\ ovDrawn[1].xTimes = 100 * 500

----------------------------------------------------------------------------
(* The remaining claims on Spec *)

\* C27 as stated: extractText resolves with a result object for every pair of
\* arguments, a missing or empty filePath or mimetype included; it never rejects.
ClaimC27 == flow = "direct" => result.kind # "rejected"

\* s holds sub as a contiguous part
Holds(s, sub) ==
  \E i \in 0..(Len(s) - Len(sub)) : SubSeq(s, i + 1, i + Len(sub)) = sub

\* C28 as stated: whichever passes produced the page text, it holds the text of
\* every word of every line of the page.
ClaimC28 ==
  asmPc \in {"forced", "basic", "clean"} =>
    \A i \in 1..Len(lines) : \A j \in 1..Len(lines[i].words) :
      Holds(pageText, lines[i].words[j].text)

----------------------------------------------------------------------------
(* SpecUpload: concurrent uploadAndCreateNote requests of one user.  A        *)
(* request's steps are its stretches between awaits; the database applies     *)
(* each findById and each findByIdAndUpdate atomically.                       *)

MaxRequests == 2
MaxLimit == 2

Requests == 1..Len(reqPc)

\* no user document read yet
NoUser == [notesUploaded |-> 0, notesLimit |-> 0]

InitUpload ==
  /\ notesLimit \in 1..MaxLimit
  /\ notesUploaded \in 0..notesLimit
  /\ \E n \in 1..MaxRequests :
       /\ reqPc = [r \in 1..n |-> "start"]
       /\ reqUser = [r \in 1..n |-> NoUser]
  /\ EarlierIdle
  /\ NormIdle
  /\ ProbeIdle
  /\ AsmIdle
  /\ OverlayIdle
  /\ LineBreakIdle
  /\ ParaIdle

\* the checks of req.user and req.files, const user = await User.findById(...),
\* and the test user.usage.notesUploaded >= user.usage.notesLimit
UploadCheck(r, hasFiles) ==
  /\ reqPc[r] = "start"
  /\ IF ~hasFiles
       THEN /\ reqPc' = [reqPc EXCEPT ![r] = "sent400"]
            /\ reqUser' = reqUser
       ELSE /\ reqUser' = [reqUser EXCEPT ![r] = [notesUploaded |-> notesUploaded,
                                                  notesLimit |-> notesLimit]]
            /\ reqPc' = [reqPc EXCEPT ![r] =
                           IF notesUploaded >= notesLimit THEN "sent403"
                           ELSE "saving"]
  /\ UNCHANGED <<notesUploaded, notesLimit>>
  /\ UNCHANGED otherThanUpload

\* await fs.readFile(firstFile.path) and await note.save(); an error of either
\* is answered by the catch block
UploadSave(r, saved) ==
  /\ reqPc[r] = "saving"
  /\ reqPc' = [reqPc EXCEPT ![r] = IF saved THEN "counting" ELSE "sent500"]
  /\ UNCHANGED <<notesUploaded, notesLimit, reqUser>>
  /\ UNCHANGED otherThanUpload

\* await User.findByIdAndUpdate(req.user._id, {$inc: {"usage.notesUploaded": 1}, ...})
UploadCount(r) ==
  /\ reqPc[r] = "counting"
  /\ notesUploaded' = notesUploaded + 1
  /\ reqPc' = [reqPc EXCEPT ![r] = "responding"]
  /\ UNCHANGED <<notesLimit, reqUser>>
  /\ UNCHANGED otherThanUpload

\* the folder update, the start of processNoteFiles, sendSuccess
UploadRespond(r) ==
  /\ reqPc[r] = "responding"
  /\ reqPc' = [reqPc EXCEPT ![r] = "sent201"]
  /\ UNCHANGED <<notesUploaded, notesLimit, reqUser>>
  /\ UNCHANGED otherThanUpload

NextUpload ==
  \/ \E r \in Requests, hasFiles \in BOOLEAN : UploadCheck(r, hasFiles)
  \/ \E r \in Requests, saved \in BOOLEAN : UploadSave(r, saved)
  \/ \E r \in Requests : UploadCount(r)
  \/ \E r \in Requests : UploadRespond(r)

SpecUpload == InitUpload /\ [][NextUpload]_vars

\* C29 as stated: under every interleaving of a user's concurrent requests the
\* user's usage.notesUploaded never exceeds usage.notesLimit.
ClaimC29 == notesUploaded <= notesLimit

----------------------------------------------------------------------------
(* SpecNote: the processNoteFiles runs of Spec, under the condition that no   *)
(* step waits for ever: the database, the file system and the recognition     *)
(* service answer every call, and every timer fires.                          *)

InitNote == Init /\ flow = "note"

NextNote ==
  \/ (ETValidate /\ UNCHANGED otherThanOcr)
  \/ (ETStat /\ UNCHANGED otherThanOcr)
  \/ (ETProbe /\ UNCHANGED otherThanOcr)
  \/ (ETClient /\ UNCHANGED otherThanOcr)
  \/ (\E ans \in SubmitAnswers : RTFSubmit(ans) /\ UNCHANGED otherThanOcr)
  \/ (RTFSleep /\ UNCHANGED otherThanOcr)
  \/ (\E ans \in PollAnswers : RTFPoll(ans) /\ UNCHANGED otherThanOcr)
  \/ (ETProcess /\ UNCHANGED otherThanOcr)
  \/ (ETCatch /\ UNCHANGED otherThanOcr)
  \/ (SimulateOCR /\ UNCHANGED otherThanOcr)
  \/ (PNFFind /\ UNCHANGED otherThanOcr)
  \/ (OVOverlay /\ UNCHANGED otherThanOcr)
  \/ (PNFUpdate /\ UNCHANGED otherThanOcr)
  \/ (PNFCatch /\ UNCHANGED otherThanOcr)
  \/ (PNFUnlink /\ UNCHANGED otherThanOcr)

SpecNote == InitNote /\ [][NextNote]_vars /\ WF_vars(NextNote)

====
